---- MODULE Spec2Model ----
(***************************************************************************)
(* A model of the MobilePay recurring-payment backend: the charge          *)
(* scheduler (cron and manual sweeps), the charge manager, the admin       *)
(* retry, the public agreement endpoints and the webhook reconciler, as    *)
(* state machines over the four persisted tables.  A handler runs from     *)
(* one await on the database to the next in one step, so that handlers     *)
(* interleave where the single-threaded runtime lets them; an await on     *)
(* the provider's charge endpoint or on the job queue, whose state no      *)
(* handler reads, is taken together with the database step next to it.     *)
(***************************************************************************)
EXTENDS Integers, Sequences, FiniteSets, TLC

(***************************************************************************)
(* Bounds of the model.                                                    *)
(***************************************************************************)
\* how many agreements (and so customers' create requests) exist at most
MaxAgreements == 2
\* how many sweeps may be started, by the cron job and by hand together
MaxSweepRuns == 2
\* how many status polls, cancel requests, admin retries and webhook
\* deliveries may be started, taken together
MaxRequests == 2
\* clock advances between the calls of the token service, and its calls
MaxTicks == 3
MaxCalls == 3

(***************************************************************************)
(* Program constants.                                                      *)
(***************************************************************************)
\* CHARGE_ADVANCE_DAYS default
advanceDays == 3
\* the scheduler's fixed retry window
schedulerRetryDays == 5
\* NotificationService.maxRetries
maxRetries == 3
\* AccessTokenService.tokenBuffer, seconds
tokenBuffer == 300

(***************************************************************************)
(* Calendar.  A Date is [y, m, d, t]: year, month 1..12, day of month and  *)
(* the time of day t, where t = 0 is 00:00:00.000 and every other value    *)
(* is some later instant of the day.  The server runs in UTC, so local     *)
(* and ISO calendar days coincide.                                         *)
(***************************************************************************)
IsLeap(y) == (y % 4 = 0) /\ ((y % 100 # 0) \/ (y % 400 = 0))

DaysInMonth(y, m) ==
    IF m = 2 THEN (IF IsLeap(y) THEN 29 ELSE 28)
    ELSE IF m \in {4, 6, 9, 11} THEN 30 ELSE 31

\* ECMAScript MakeDay: a month beyond December carries into the year, a day
\* beyond the end of the month carries into the following months.
RECURSIVE MakeDay(_, _, _, _)
MakeDay(y, m, d, t) ==
    IF m > 12 THEN MakeDay(y + 1, m - 12, d, t)
    ELSE IF d > DaysInMonth(y, m) THEN MakeDay(y, m + 1, d - DaysInMonth(y, m), t)
    ELSE [y |-> y, m |-> m, d |-> d, t |-> t]

\* Date.prototype.setMonth(getMonth() + n)
setMonth(date, n) == MakeDay(date.y, date.m + n, date.d, date.t)
\* Date.prototype.setFullYear(getFullYear() + n)
setFullYear(date, n) == MakeDay(date.y + n, date.m, date.d, date.t)
\* Date.prototype.setDate(getDate() + n)
setDate(date, n) == MakeDay(date.y, date.m, date.d + n, date.t)
\* Date.prototype.setHours(0, 0, 0, 0)
setHoursZero(date) == [date EXCEPT !.t = 0]
\* toISOString().split('T')[0]: the calendar day without the time of day
dueDateStr(date) == <<date.y, date.m, date.d>>

\* the order of instants
DateLess(a, b) ==
    \/ a.y < b.y
    \/ a.y = b.y /\ a.m < b.m
    \/ a.y = b.y /\ a.m = b.m /\ a.d < b.d
    \/ a.y = b.y /\ a.m = b.m /\ a.d = b.d /\ a.t < b.t

NoDate == [y |-> 0, m |-> 0, d |-> 0, t |-> 0]

(***************************************************************************)
(* Pure helpers of the services.                                           *)
(***************************************************************************)
IntervalUnits == {"MONTH", "YEAR", "WEEK", "DAY"}
PlanTypes == {"monthly", "semi_annual", "annual"}

\* AgreementService.getIntervalFromPlanType
getIntervalFromPlanType(planType) ==
    CASE planType = "monthly" -> [unit |-> "MONTH", count |-> 1]
      [] planType = "semi_annual" -> [unit |-> "MONTH", count |-> 6]
      [] planType = "annual" -> [unit |-> "YEAR", count |-> 1]

\* a switch without the default branch: the date comes back as it went in
calculateNextBillingDateNoDefault(currentDate, intervalUnit, intervalCount) ==
    CASE intervalUnit = "MONTH" ->
            [threw |-> FALSE, date |-> setMonth(currentDate, intervalCount)]
      [] intervalUnit = "YEAR" ->
            [threw |-> FALSE, date |-> setFullYear(currentDate, intervalCount)]
      [] intervalUnit = "WEEK" ->
            [threw |-> FALSE, date |-> setDate(currentDate, intervalCount * 7)]
      [] intervalUnit = "DAY" ->
            [threw |-> FALSE, date |-> setDate(currentDate, intervalCount)]
      [] OTHER -> [threw |-> FALSE, date |-> currentDate]

\* ChargeService.calculateNextBillingDate: the next date, or the thrown
\* "Invalid interval unit" error.
calculateNextBillingDate(currentDate, intervalUnit, intervalCount) ==
    CASE intervalUnit = "MONTH" ->
            [threw |-> FALSE, date |-> setMonth(currentDate, intervalCount)]
      [] intervalUnit = "YEAR" ->
            [threw |-> FALSE, date |-> setFullYear(currentDate, intervalCount)]
      [] intervalUnit = "WEEK" ->
            [threw |-> FALSE, date |-> setDate(currentDate, intervalCount * 7)]
      [] intervalUnit = "DAY" ->
            [threw |-> FALSE, date |-> setDate(currentDate, intervalCount)]
      [] OTHER -> [threw |-> TRUE, date |-> NoDate]

\* the create route's first nextBillingDate: now plus one plan period
firstBillingDate(today, planType) ==
    IF planType = "monthly" THEN setMonth(today, 1)
    ELSE IF planType = "semi_annual" THEN setMonth(today, 6)
    ELSE setFullYear(today, 1)

\* String.prototype.toLowerCase on the provider's status words
toLowerCase(status) ==
    CASE status = "PENDING" -> "pending"
      [] status = "ACTIVE" -> "active"
      [] status = "STOPPED" -> "stopped"
      [] status = "EXPIRED" -> "expired"
      [] status = "DUE" -> "due"
      [] status = "RESERVED" -> "reserved"
      [] status = "CHARGED" -> "charged"
      [] status = "FAILED" -> "failed"
      [] status = "CANCELLED" -> "cancelled"
      [] OTHER -> status

\* the scheduler's description: product name with the due month and year
chargeDescription(productName, dueDate) == <<productName, dueDate.m, dueDate.y>>

\* the create route's product name
productNameOf(planType) ==
    IF planType = "monthly" THEN "FamilyMind Maanedligt Abonnement"
    ELSE IF planType = "semi_annual" THEN "FamilyMind Halvaarligt Abonnement"
    ELSE "FamilyMind Aarligt Abonnement"

(***************************************************************************)
(* State.                                                                  *)
(***************************************************************************)
VARIABLES
    now,            \* the wall clock, a Date
    customers,      \* table customers: row id = index, [email]
    agreements,     \* table agreements: row id = index
    subscriptions,  \* table subscription_sync: row id = index
    charges,        \* table charges: row id = index
    provider,       \* the payment provider: its agreements and charge requests
    sweep,          \* the two triggers of scheduleUpcomingCharges
    req,            \* the HTTP requests in flight, one per slot
    started,        \* how many operations of each kind were started
    notifications,  \* downstream notifications initiated: event -> count
    queue,          \* monitor-charge jobs enqueued: set of charge row ids
    auth            \* the access token service: its cache, the clock it reads
                    \* and the tokens the provider has issued

vars == <<now, customers, agreements, subscriptions, charges, provider, sweep,
          req, started, notifications, queue, auth>>

\* the instants at which a create request reads the clock: at midnight sharp
\* and later in the day
CreateClock ==
    {[y |-> 2025, m |-> 2, d |-> 1, t |-> 0], [y |-> 2025, m |-> 2, d |-> 1, t |-> 1],
     [y |-> 2026, m |-> 1, d |-> 1, t |-> 0], [y |-> 2026, m |-> 1, d |-> 1, t |-> 1]}
\* the instants at which a sweep reads the clock: three days before the
\* first of February, the day after, and three days before the first of March
DueDay == [y |-> 2026, m |-> 1, d |-> 29, t |-> 1]
SweepClock ==
    {DueDay, [y |-> 2026, m |-> 1, d |-> 30, t |-> 1],
     [y |-> 2026, m |-> 2, d |-> 26, t |-> 1]}
\* the sweeps of the last days of January only
JanuaryClock == {c \in SweepClock : c.m = 1}
\* the clock never runs backwards: a reading is not before the last one
ClockReads(values) == {c \in values : ~DateLess(c, now)}

Triggers == {"cron", "manual"}
\* the requests in flight at once: two, and the first alone where requests
\* come one after the other
Slots == {1, 2}
Serial == {1}
Emails == {"a@x.dk"}
\* the plans requested through the create route
RequestedPlans == {"monthly", "annual"}
\* the amount of a plan in DKK, and Math.round(amount * 100)
planAmount == 299
amountInOre(amount) == amount * 100
\* the statuses the provider answers a create-charge request with
ProviderChargeStatuses == {"PENDING"}

RowIds(table) == 1..Len(table)

IdleSweep ==
    [pc |-> "idle", targetDate |-> NoDate, subs |-> <<>>, i |-> 0,
     successCount |-> 0, errorCount |-> 0, failedLog |-> {}, queueErr |-> {},
     skipped |-> {}, charge |-> 0, outcome |-> "none",
     logged |-> "none"]

IdleReq ==
    [kind |-> "none", pc |-> "idle", email |-> "none", plan |-> "none", id |-> 0,
     loc |-> 0, old |-> "none", new |-> "none", ev |-> "none", key |-> <<>>,
     snap |-> <<>>, sent |-> <<>>, first |-> [err |-> "never", tables |-> <<>>],
     res |-> "none", err |-> "none", signature |-> "none", seq |-> 0]

\* null, as the cache holds it before the first fetch: falsy, as is 0
NoToken == 0
\* the service as constructed: nothing cached, no token issued, no fetch sent;
\* stale is the number of tokens that were issued before the last failed fetch
EmptyAuth ==
    [accessToken |-> NoToken, tokenExpiry |-> NoToken, time |-> 0, ticks |-> 0,
     issued |-> <<>>, fetches |-> 0, calls |-> 0, stale |-> 0]

\* nothing has happened yet
Init ==
    /\ now = [y |-> 2025, m |-> 2, d |-> 1, t |-> 0]
    /\ customers = <<>>
    /\ agreements = <<>>
    /\ subscriptions = <<>>
    /\ charges = <<>>
    /\ provider = [agreements |-> <<>>, charges |-> {}]
    /\ sweep = [s \in Triggers |-> IdleSweep]
    /\ req = [r \in Slots |-> IdleReq]
    /\ started = [create |-> 0, requests |-> 0, sweep |-> 0]
    /\ notifications = [activated |-> 0, cancelled |-> 0, success |-> 0, failed |-> 0,
                        activatedFor |-> [a \in 1..MaxAgreements |-> 0]]
    /\ queue = {}
    /\ auth = EmptyAuth

(***************************************************************************)
(* The persistence layer and the provider, as the services use them.       *)
(***************************************************************************)
\* a charges table without the index: no insert is ever rejected
NoUniqueIndex(rows, agreementId, dueDate) == FALSE

\* the unique index on charges (agreementId, dueDate)
ChargeUniqueViolation(rows, agreementId, dueDate) ==
    \E c \in RowIds(rows) :
        rows[c].agreementId = agreementId /\ rows[c].dueDate = dueDate

\* prisma.charge.findFirst({agreementId, dueDate}): the first such row id, or 0
findFirstCharge(rows, agreementId, dueDate) ==
    LET hits == {c \in RowIds(rows) :
                    rows[c].agreementId = agreementId /\ rows[c].dueDate = dueDate}
    IN IF hits = {} THEN 0 ELSE CHOOSE c \in hits : \A o \in hits : c <= o

\* the Idempotency-Key header of a create-charge request
IdempotencyKey(mobilepayAgreementId, dueDate) ==
    <<mobilepayAgreementId, dueDateStr(dueDate)>>

\* the provider's charge id for a create-charge request: a request that
\* repeats an Idempotency-Key is answered with the charge created first
ProviderChargeId(mobilepayAgreementId, dueDate) ==
    IdempotencyKey(mobilepayAgreementId, dueDate)

\* the provider after a create-charge request with this key: a repeated key
\* returns the charge created first and creates nothing
ProviderCreateCharge(key) == [provider EXCEPT !.charges = @ \cup {key}]

\* prisma.charge.create in ChargeService.createCharge
NewChargeRow(agreementId, chargeId, amount, description, dueDate, status, retryDays) ==
    [agreementId |-> agreementId, mobilepayChargeId |-> chargeId, amount |-> amount,
     description |-> description, dueDate |-> dueDate,
     status |-> toLowerCase(status), retryDays |-> retryDays]

(***************************************************************************)
(* ChargeSchedulerService.                                                 *)
(***************************************************************************)
\* the sweep's target date: today plus advanceDays, at 00:00:00.000
TargetDate(today) == setHoursZero(setDate(today, advanceDays))

\* a query that also selects the rows whose date has passed
RECURSIVE SelectDueOverdue(_, _, _, _)
SelectDueOverdue(subs, agrs, targetDate, k) ==
    IF k > Len(subs) THEN <<>>
    ELSE LET row == subs[k]
             hit == /\ row.status = "active"
                    /\ row.paymentMethod = "mobilepay"
                    /\ ~DateLess(targetDate, row.nextBillingDate)
                    /\ agrs[row.agreementId].status = "active"
         IN (IF hit THEN <<[id |-> k, agreementId |-> row.agreementId,
                            nextBillingDate |-> row.nextBillingDate]>>
             ELSE <<>>) \o SelectDueOverdue(subs, agrs, targetDate, k + 1)

\* the rows findMany selects, in table order, as the snapshots the loop uses
RECURSIVE SelectDue(_, _, _, _)
SelectDue(subs, agrs, targetDate, k) ==
    IF k > Len(subs) THEN <<>>
    ELSE LET row == subs[k]
             hit == /\ row.status = "active"
                    /\ row.paymentMethod = "mobilepay"
                    /\ row.nextBillingDate = targetDate
                    /\ agrs[row.agreementId].status = "active"
         IN (IF hit THEN <<[id |-> k, agreementId |-> row.agreementId,
                            nextBillingDate |-> row.nextBillingDate]>>
             ELSE <<>>) \o SelectDue(subs, agrs, targetDate, k + 1)

\* the for loop moves to the next subscription or the sweep completes
NextCandidate(sw) ==
    IF sw.i < Len(sw.subs)
    THEN [sw EXCEPT !.i = @ + 1, !.pc = "find", !.charge = 0]
    ELSE [sw EXCEPT !.pc = "done", !.outcome = "returned", !.logged = "completed",
                    !.charge = 0]

\* the loop's try: createChargeForSubscription returned
loopSuccess(sw) == NextCandidate([sw EXCEPT !.successCount = @ + 1])

\* a catch that counts and logs the failure and then leaves the loop
loopCatchLeaves(sw) ==
    [sw EXCEPT !.errorCount = @ + 1, !.failedLog = @ \cup {sw.subs[sw.i].id},
               !.pc = "done", !.outcome = "returned", !.logged = "completed",
               !.charge = 0]

\* the loop's catch: counted, logged with the subscription id, loop goes on
loopCatch(sw) ==
    NextCandidate([sw EXCEPT !.errorCount = @ + 1,
                             !.failedLog = @ \cup {sw.subs[sw.i].id}])

\* an outer catch that logs and throws the error on to the caller
sweepCatchRethrows(sw) ==
    [sw EXCEPT !.pc = "done", !.outcome = "threw", !.logged = "failed"]

\* the outer catch of scheduleUpcomingCharges: logged, nothing rethrown
sweepCatch(sw) ==
    [sw EXCEPT !.pc = "done", !.outcome = "returned", !.logged = "failed"]

Candidate(s) == sweep[s].subs[sweep[s].i]

\* scheduleUpcomingCharges up to the end of its query
SweepQuery(s, clock) ==
    /\ sweep[s].pc = "idle"
    /\ started.sweep < MaxSweepRuns
    /\ started' = [started EXCEPT !.sweep = @ + 1]
    /\ \E today \in ClockReads(clock) :
        /\ now' = today
        /\ LET fresh == [IdleSweep EXCEPT !.targetDate = TargetDate(today)]
           IN \/ \* the query fails
                 sweep' = [sweep EXCEPT ![s] = sweepCatch(fresh)]
              \/ LET found == SelectDue(subscriptions, agreements,
                                        fresh.targetDate, 1)
                 IN sweep' = [sweep EXCEPT ![s] =
                        NextCandidate([fresh EXCEPT !.subs = found])]
    /\ UNCHANGED <<auth, customers, agreements, subscriptions, charges, provider,
                   req, notifications, queue>>

\* a lookup whose result is ignored
existingChargeIgnored(existingCharge) == FALSE

\* createChargeForSubscription: the existing-charge lookup
existingChargeGuard(existingCharge) == existingCharge # 0

SweepFindExisting(s) ==
    /\ sweep[s].pc = "find"
    /\ \/ \* the lookup fails
          sweep' = [sweep EXCEPT ![s] = loopCatch(@)]
       \/ LET existingCharge == findFirstCharge(charges, Candidate(s).agreementId,
                                                Candidate(s).nextBillingDate)
          IN IF existingChargeGuard(existingCharge)
             THEN \* logged as already existing, the function returns
                  sweep' = [sweep EXCEPT ![s] =
                      loopSuccess([@ EXCEPT !.skipped = @ \cup {Candidate(s).id}])]
             ELSE sweep' = [sweep EXCEPT ![s].pc = "create"]
    /\ UNCHANGED <<auth, now, customers, agreements, subscriptions, charges, provider,
                   req, started, notifications, queue>>

\* a createCharge that logs the error and returns: its caller goes on to
\* the advance
createChargeCatchSwallows(sw) == [sw EXCEPT !.pc = "advance"]
\* the catch of createCharge: it logs and throws 'Failed to create MobilePay
\* charge', which reaches the loop's catch
createChargeCatch(sw) == loopCatch(sw)

\* ChargeService.createCharge for the candidate: the access token, the
\* provider's create-charge request, then the charge row.  The provider
\* request touches nothing another handler reads, so it is taken together
\* with the insert that follows it.
SweepCreateCharge(s) ==
    /\ sweep[s].pc = "create"
    /\ LET agreement == agreements[Candidate(s).agreementId]
           dueDate == Candidate(s).nextBillingDate
           key == IdempotencyKey(agreement.mobilepayAgreementId, dueDate)
       IN \/ \* token fetch or provider request fails: createCharge throws
             /\ sweep' = [sweep EXCEPT ![s] = createChargeCatch(@)]
             /\ UNCHANGED <<provider, charges>>
          \/ \* the provider created the charge, the insert fails
             /\ provider' = ProviderCreateCharge(key)
             /\ sweep' = [sweep EXCEPT ![s] = createChargeCatch(@)]
             /\ UNCHANGED charges
          \/ \E status \in ProviderChargeStatuses :
                /\ provider' = ProviderCreateCharge(key)
                /\ IF ChargeUniqueViolation(charges, Candidate(s).agreementId, dueDate)
                   THEN /\ sweep' = [sweep EXCEPT ![s] = createChargeCatch(@)]
                        /\ UNCHANGED charges
                   ELSE /\ charges' = Append(charges,
                              NewChargeRow(Candidate(s).agreementId,
                                  ProviderChargeId(agreement.mobilepayAgreementId,
                                                   dueDate),
                                  agreement.amount,
                                  chargeDescription(agreement.productName, dueDate),
                                  dueDate, status, schedulerRetryDays))
                        /\ sweep' = [sweep EXCEPT ![s].pc = "advance",
                                                  ![s].charge = Len(charges) + 1]
    /\ UNCHANGED <<auth, now, customers, agreements, subscriptions, req, started,
                   notifications, queue>>

\* createChargeForSubscription after createCharge: nextBillingDate is
\* advanced and saved, then the monitor-charge job is enqueued.  The queue
\* is read by no handler, so the enqueue is taken together with the update.
SweepAdvance(s) ==
    /\ sweep[s].pc = "advance"
    /\ LET agreement == agreements[Candidate(s).agreementId]
           next == calculateNextBillingDate(Candidate(s).nextBillingDate,
                        agreement.intervalUnit, agreement.intervalCount)
           saved == [subscriptions EXCEPT
                        ![Candidate(s).id].nextBillingDate = next.date]
       IN \/ \* the interval unit is invalid or the update fails
             /\ sweep' = [sweep EXCEPT ![s] = loopCatch(@)]
             /\ UNCHANGED <<auth, subscriptions, queue>>
          \/ \* chargeQueue.add rejects: the rejection leaves the awaiting function
             /\ ~next.threw
             /\ subscriptions' = saved
             /\ sweep' = [sweep EXCEPT ![s] =
                    loopCatch([@ EXCEPT !.queueErr = @ \cup {Candidate(s).id}])]
             /\ UNCHANGED queue
          \/ /\ ~next.threw
             /\ subscriptions' = saved
             /\ queue' = queue \cup {sweep[s].charge}
             /\ sweep' = [sweep EXCEPT ![s] = loopSuccess(@)]
    /\ UNCHANGED <<auth, now, customers, agreements, charges, provider, req, started,
                   notifications>>

\* scheduleUpcomingCharges has settled: its caller (the cron callback or
\* triggerManually) goes on and the run's locals are gone
SweepReturn(s) ==
    /\ sweep[s].pc = "done"
    /\ sweep' = [sweep EXCEPT ![s] = IdleSweep]
    /\ UNCHANGED <<auth, now, customers, agreements, subscriptions, charges, provider, req,
                   started, notifications, queue>>

(***************************************************************************)
(* HTTP requests.  A slot holds one request from its start to its          *)
(* response (for a webhook: to the end of the detached reconciliation).    *)
(***************************************************************************)
Free(r) == req[r].pc = "idle"

\* the request is over and its slot is free again
RequestEnd(r) ==
    /\ req[r].pc = "done"
    /\ req' = [req EXCEPT ![r] = IdleReq]
    /\ UNCHANGED <<auth, now, customers, agreements, subscriptions, charges, provider,
                   sweep, started, notifications, queue>>

\* the response is sent (or the detached work ends): the handler's locals
\* are gone, what it answered stays until the request is over
Respond(rq, res, err) ==
    [IdleReq EXCEPT !.kind = rq.kind, !.ev = rq.ev, !.id = rq.id, !.key = rq.key,
                    !.sent = rq.sent, !.first = rq.first, !.signature = rq.signature,
                    !.seq = rq.seq,
                    !.pc = "done", !.res = res, !.err = err]

\* a route that awaits the reconciliation and answers 500 when it fails
LoggedAsError(rq, err) == Respond(rq, IF err = "none" THEN rq.res ELSE 500, err)

\* the detached reconciliation of a webhook ends: the route's catch only
\* logs, the response the route has sent stays what it was
Logged(rq, err) == Respond(rq, rq.res, err)

(***************************************************************************)
(* NotificationService (configured), against a downstream that answers     *)
(* the k-th delivery attempt of a notification with responses[k].          *)
(***************************************************************************)
Responses == {"ok", "fail"}
\* the downstream's answers: one more than the service may ask for
Downstream == [1..(maxRetries + 1) -> Responses]
\* a downstream that is up
Delivers == {[k \in 1..(maxRetries + 1) |-> "ok"]}

\* Math.pow(2, attempt) * 1000 ms, in seconds
backoff(attempt) == 2 ^ attempt

\* a retry loop that goes round once more than maxRetries
RECURSIVE sendAttemptsOneMore(_, _)
sendAttemptsOneMore(responses, attempt) ==
    IF attempt > maxRetries + 1 THEN <<>>
    ELSE IF responses[attempt] = "ok" THEN <<[outcome |-> "ok", wait |-> 0]>>
    ELSE <<[outcome |-> "fail",
            wait |-> IF attempt < maxRetries THEN backoff(attempt) ELSE 0]>>
            \o sendAttemptsOneMore(responses, attempt + 1)

\* the for loop of sendNotification from `attempt` on: the attempts it makes,
\* each with its outcome and the wait that follows it
RECURSIVE sendAttempts(_, _)
sendAttempts(responses, attempt) ==
    IF attempt > maxRetries THEN <<>>
    ELSE IF responses[attempt] = "ok" THEN <<[outcome |-> "ok", wait |-> 0]>>
    ELSE <<[outcome |-> "fail",
            wait |-> IF attempt < maxRetries THEN backoff(attempt) ELSE 0]>>
            \o sendAttempts(responses, attempt + 1)

\* a sendNotification that throws once all its attempts have failed
sendNotificationThrows(responses) ==
    LET log == sendAttempts(responses, 1)
    IN [log |-> log, threw |-> \A k \in 1..Len(log) : log[k].outcome # "ok"]

\* sendNotification: the attempts made, and whether it threw
sendNotification(responses) ==
    [log |-> sendAttempts(responses, 1), threw |-> FALSE]

\* a handler after its notify* call: it goes on, or the error leaves it
AfterNotify(rq, sent) ==
    [[rq EXCEPT !.sent = sent.log] EXCEPT !.err = IF sent.threw THEN "notify" ELSE "none"]

(***************************************************************************)
(* POST /api/v1/agreements                                                 *)
(***************************************************************************)
findFirstCustomer(rows, email) ==
    LET hits == {c \in RowIds(rows) : rows[c].email = email}
    IN IF hits = {} THEN 0 ELSE CHOOSE c \in hits : \A o \in hits : c <= o

CreateFindCustomer(r) ==
    /\ Free(r)
    /\ started.create < MaxAgreements
    /\ \E email \in Emails, plan \in RequestedPlans :
        LET customerRecord == findFirstCustomer(customers, email)
        IN req' = [req EXCEPT ![r] = [IdleReq EXCEPT
                !.kind = "create", !.email = email, !.plan = plan,
                !.loc = customerRecord,
                !.pc = IF customerRecord = 0 THEN "c_customer" ELSE "c_provider"]]
    /\ started' = [started EXCEPT !.create = @ + 1]
    /\ UNCHANGED <<auth, now, customers, agreements, subscriptions, charges, provider,
                   sweep, notifications, queue>>

\* a Customer table without a unique index on email
NoUniqueEmail(rows, email) == FALSE
\* the unique index of the Customer table on email
CustomerUniqueViolation(rows, email) ==
    \E c \in RowIds(rows) : rows[c].email = email

CreateCustomer(r) ==
    /\ req[r].pc = "c_customer"
    /\ \/ /\ req' = [req EXCEPT ![r] = Respond(@, 500, "db")]
          /\ UNCHANGED customers
       \/ IF CustomerUniqueViolation(customers, req[r].email)
          THEN /\ req' = [req EXCEPT ![r] = Respond(@, 500, "unique")]
               /\ UNCHANGED customers
          ELSE /\ customers' = Append(customers, [email |-> req[r].email])
               /\ req' = [req EXCEPT ![r].loc = Len(customers) + 1,
                                     ![r].pc = "c_provider"]
    /\ UNCHANGED <<auth, now, agreements, subscriptions, charges, provider, sweep, started,
                   notifications, queue>>

\* AgreementService.createAgreement: token and the provider's create-agreement
CreateProviderAgreement(r) ==
    /\ req[r].pc = "c_provider"
    /\ \/ /\ req' = [req EXCEPT ![r] = Respond(@, 500, "provider")]
          /\ UNCHANGED provider
       \/ /\ provider' = [provider EXCEPT !.agreements = Append(@, "PENDING")]
          /\ req' = [req EXCEPT ![r].id = Len(provider.agreements) + 1,
                                ![r].pc = "c_agreement"]
    /\ UNCHANGED <<auth, now, customers, agreements, subscriptions, charges, sweep, started,
                   notifications, queue>>

NewAgreementRow(customerId, agreementId, planType, amount) ==
    [customerId |-> customerId, mobilepayAgreementId |-> agreementId,
     status |-> "pending",
     intervalUnit |-> getIntervalFromPlanType(planType).unit,
     intervalCount |-> getIntervalFromPlanType(planType).count,
     amount |-> amountInOre(amount), productName |-> productNameOf(planType)]

\* AgreementService.createAgreement: the agreement row is saved
CreateAgreementRow(r) ==
    /\ req[r].pc = "c_agreement"
    /\ \/ /\ req' = [req EXCEPT ![r] = Respond(@, 500, "db")]
          /\ UNCHANGED agreements
       \/ /\ agreements' = Append(agreements,
                NewAgreementRow(req[r].loc, req[r].id, req[r].plan, planAmount))
          /\ req' = [req EXCEPT ![r].id = Len(agreements) + 1, ![r].pc = "c_subscription"]
    /\ UNCHANGED <<auth, now, customers, subscriptions, charges, provider, sweep, started,
                   notifications, queue>>

NewSubscriptionRow(customerId, agreementId, planType, today) ==
    [customerId |-> customerId, agreementId |-> agreementId,
     paymentMethod |-> "mobilepay", planType |-> planType, status |-> "active",
     nextBillingDate |-> firstBillingDate(today, planType)]

\* the subscription sync record is saved and 201 is sent
CreateSubscriptionRow(r) ==
    /\ req[r].pc = "c_subscription"
    /\ \E today \in ClockReads(CreateClock) :
        /\ now' = today
        /\ \/ /\ req' = [req EXCEPT ![r] = Respond(@, 500, "db")]
              /\ UNCHANGED subscriptions
           \/ /\ subscriptions' = Append(subscriptions,
                    NewSubscriptionRow(req[r].loc, req[r].id, req[r].plan, today))
              /\ req' = [req EXCEPT ![r] = Respond(@, 201, "none")]
    /\ UNCHANGED <<auth, customers, agreements, charges, provider, sweep, started,
                   notifications, queue>>

(***************************************************************************)
(* The provider's side of an agreement: the user accepts it in the app.    *)
(***************************************************************************)
ProviderAccept ==
    /\ \E p \in RowIds(provider.agreements) :
        /\ provider.agreements[p] = "PENDING"
        /\ provider' = [provider EXCEPT !.agreements[p] = "ACTIVE"]
    /\ UNCHANGED <<auth, now, customers, agreements, subscriptions, charges, sweep, req,
                   started, notifications, queue>>

(***************************************************************************)
(* GET /api/v1/agreements/:id, the status poll                             *)
(***************************************************************************)
PollFind(r) ==
    /\ Free(r)
    /\ started.requests < MaxRequests
    /\ \E id \in RowIds(agreements) :
        req' = [req EXCEPT ![r] = [IdleReq EXCEPT
                !.kind = "poll", !.id = id, !.old = agreements[id].status,
                !.loc = agreements[id].mobilepayAgreementId, !.pc = "p_status"]]
    /\ started' = [started EXCEPT !.requests = @ + 1]
    /\ UNCHANGED <<auth, now, customers, agreements, subscriptions, charges, provider,
                   sweep, notifications, queue>>

\* AgreementService.getAgreementStatus and the comparison with the stored status
PollStatus(r) ==
    /\ req[r].pc = "p_status"
    /\ \/ \* the provider call fails: the catch continues with the stored status
          req' = [req EXCEPT ![r] = Respond(@, 200, "provider")]
       \/ LET newStatus == toLowerCase(provider.agreements[req[r].loc])
          IN IF newStatus # req[r].old
             THEN req' = [req EXCEPT ![r].new = newStatus, ![r].pc = "p_update"]
             ELSE req' = [req EXCEPT ![r] = Respond(@, 200, "none")]
    /\ UNCHANGED <<auth, now, customers, agreements, subscriptions, charges, provider,
                   sweep, started, notifications, queue>>

\* AgreementService.updateAgreementStatus: the unconditional status write
updateAgreementStatusDeferred(rows, agreementId, status) == rows

updateAgreementStatus(rows, agreementId, status) ==
    [rows EXCEPT ![agreementId].status = status]

PollUpdate(r) ==
    /\ req[r].pc = "p_update"
    /\ \/ /\ req' = [req EXCEPT ![r] = Respond(@, 200, "db")]
          /\ UNCHANGED agreements
       \/ /\ agreements' = updateAgreementStatus(agreements, req[r].id, req[r].new)
          /\ IF req[r].old = "pending" /\ req[r].new = "active"
             THEN req' = [req EXCEPT ![r].pc = "p_notify"]
             ELSE req' = [req EXCEPT ![r] = Respond(@, 200, "none")]
    /\ UNCHANGED <<auth, now, customers, subscriptions, charges, provider, sweep, started,
                   notifications, queue>>

\* the full agreement is read and notifyAgreementActivated is called;
\* activatedFor counts the calls agreement by agreement
PollNotify(r, downstream) ==
    /\ req[r].pc = "p_notify"
    /\ notifications' = [notifications EXCEPT !.activated = @ + 1,
                                             !.activatedFor[req[r].id] = @ + 1]
    /\ \E responses \in downstream :
        LET after == AfterNotify(req[r], sendNotification(responses))
        IN req' = [req EXCEPT ![r] = Respond(after, 200, after.err)]
    /\ UNCHANGED <<auth, now, customers, agreements, subscriptions, charges, provider,
                   sweep, started, queue>>

\* the user stops the agreement in the app
ProviderStop ==
    /\ \E p \in RowIds(provider.agreements) :
        /\ provider.agreements[p] = "ACTIVE"
        /\ provider' = [provider EXCEPT !.agreements[p] = "STOPPED"]
    /\ UNCHANGED <<auth, now, customers, agreements, subscriptions, charges, sweep, req,
                   started, notifications, queue>>

(***************************************************************************)
(* POST /api/v1/agreements/:id/cancel                                      *)
(***************************************************************************)
CancelFind(r) ==
    /\ Free(r)
    /\ started.requests < MaxRequests
    /\ \E id \in RowIds(agreements) :
        req' = [req EXCEPT ![r] = [IdleReq EXCEPT
                !.kind = "cancel", !.id = id,
                !.loc = agreements[id].mobilepayAgreementId, !.pc = "x_provider"]]
    /\ started' = [started EXCEPT !.requests = @ + 1]
    /\ UNCHANGED <<auth, now, customers, agreements, subscriptions, charges, provider,
                   sweep, notifications, queue>>

\* prisma.agreement.updateMany({mobilepayAgreementId}, {status: 'stopped'})
stopAgreements(rows, mobilepayAgreementId) ==
    [a \in RowIds(rows) |->
        IF rows[a].mobilepayAgreementId = mobilepayAgreementId
        THEN [rows[a] EXCEPT !.status = "stopped"] ELSE rows[a]]

\* a catch block that marks the agreement stopped all the same
cancelCatchStops(rows, mobilepayAgreementId) ==
    stopAgreements(rows, mobilepayAgreementId)
\* the catch block of cancelAgreement: it logs and rethrows, the rows stay
cancelCatch(rows, mobilepayAgreementId) == rows

\* AgreementService.cancelAgreement: token and the provider's stop request
CancelProvider(r) ==
    /\ req[r].pc = "x_provider"
    /\ \/ /\ req' = [req EXCEPT ![r] = Respond(@, 500, "provider")]
          /\ agreements' = cancelCatch(agreements, req[r].loc)
          /\ UNCHANGED provider
       \/ /\ provider' = [provider EXCEPT !.agreements[req[r].loc] = "STOPPED"]
          /\ req' = [req EXCEPT ![r].pc = "x_update"]
          /\ UNCHANGED agreements
    /\ UNCHANGED <<auth, now, customers, subscriptions, charges, sweep, started,
                   notifications, queue>>

\* AgreementService.cancelAgreement: the local status write
CancelUpdate(r) ==
    /\ req[r].pc = "x_update"
    /\ \/ /\ req' = [req EXCEPT ![r] = Respond(@, 500, "db")]
          /\ UNCHANGED agreements
       \/ /\ agreements' = stopAgreements(agreements, req[r].loc)
          /\ req' = [req EXCEPT ![r] = Respond(@, 200, "none")]
    /\ UNCHANGED <<auth, now, customers, subscriptions, charges, provider, sweep, started,
                   notifications, queue>>

(***************************************************************************)
(* POST /api/v1/admin/charges/:id/retry                                    *)
(***************************************************************************)
\* a charge id no row has
UnknownChargeRow == 0

\* a route that retries pending charges as well
retryAllowedPending(status) == status \in {"failed", "pending"}
\* the route's check `charge.status !== 'failed'`
retryAllowed(status) == status = "failed"

RetryFind(r) ==
    /\ Free(r)
    /\ started.requests < MaxRequests
    /\ \E id \in RowIds(charges) \cup {UnknownChargeRow} :
        LET fresh == [IdleReq EXCEPT !.kind = "retry", !.id = id]
        IN IF id \notin RowIds(charges)
           THEN req' = [req EXCEPT ![r] = Respond(fresh, 404, "NOT_FOUND")]
           ELSE IF ~retryAllowed(charges[id].status)
           THEN req' = [req EXCEPT ![r] = Respond(fresh, 400, "INVALID_STATUS")]
           ELSE req' = [req EXCEPT ![r] = [fresh EXCEPT
                    !.snap = <<charges[id]>>,
                    !.loc = agreements[charges[id].agreementId].mobilepayAgreementId,
                    !.pc = "r_create"]]
    /\ started' = [started EXCEPT !.requests = @ + 1]
    /\ UNCHANGED <<auth, now, customers, agreements, subscriptions, charges, provider,
                   sweep, notifications, queue>>

\* ChargeService.createCharge with the failed charge's details: the access
\* token, the provider's create-charge request, then the new charge row
RetryCreateCharge(r) ==
    /\ req[r].pc = "r_create"
    /\ LET charge == req[r].snap[1]
           key == IdempotencyKey(req[r].loc, charge.dueDate)
       IN \/ /\ req' = [req EXCEPT ![r] = Respond(@, 500, "provider")]
             /\ UNCHANGED <<provider, charges>>
          \/ /\ provider' = ProviderCreateCharge(key)
             /\ req' = [req EXCEPT ![r] = Respond(@, 500, "db")]
             /\ UNCHANGED charges
          \/ \E status \in ProviderChargeStatuses :
                /\ provider' = ProviderCreateCharge(key)
                /\ IF ChargeUniqueViolation(charges, charge.agreementId, charge.dueDate)
                   THEN /\ req' = [req EXCEPT ![r] = Respond(@, 500, "unique")]
                        /\ UNCHANGED charges
                   ELSE /\ charges' = Append(charges,
                              NewChargeRow(charge.agreementId,
                                  ProviderChargeId(req[r].loc, charge.dueDate),
                                  charge.amount, charge.description, charge.dueDate,
                                  status, charge.retryDays))
                        /\ req' = [req EXCEPT ![r] = Respond(@, 200, "none")]
    /\ UNCHANGED <<auth, now, customers, agreements, subscriptions, sweep, started,
                   notifications, queue>>

(***************************************************************************)
(* POST /api/v1/webhook and WebhookHandlerService                          *)
(***************************************************************************)
ChargeEvents ==
    {"recurring.charge-created.v1", "recurring.charge-due.v1",
     "recurring.charge-reserved.v1", "recurring.charge-charged.v1",
     "recurring.charge-failed.v1", "recurring.charge-cancelled.v1"}
AgreementEvents == {"recurring.agreement-stopped.v1"}
UnknownEvents == {"recurring.agreement-activated.v1"}
EventTypes == AgreementEvents \cup ChargeEvents \cup UnknownEvents

\* a dispatch that sends charge-reserved to the charge-charged handler
ChargeEventStatusMixed(event) ==
    CASE event = "recurring.charge-created.v1" -> "pending"
      [] event = "recurring.charge-due.v1" -> "due"
      [] event = "recurring.charge-reserved.v1" -> "charged"
      [] event = "recurring.charge-charged.v1" -> "charged"
      [] event = "recurring.charge-failed.v1" -> "failed"
      [] event = "recurring.charge-cancelled.v1" -> "cancelled"

\* the status each charge handler writes
ChargeEventStatus(event) ==
    CASE event = "recurring.charge-created.v1" -> "pending"
      [] event = "recurring.charge-due.v1" -> "due"
      [] event = "recurring.charge-reserved.v1" -> "reserved"
      [] event = "recurring.charge-charged.v1" -> "charged"
      [] event = "recurring.charge-failed.v1" -> "failed"
      [] event = "recurring.charge-cancelled.v1" -> "cancelled"

\* the handlers that go on to notify downstream
ChargeEventNotifies(event) ==
    event \in {"recurring.charge-charged.v1", "recurring.charge-failed.v1"}

\* an absent data.chargeId / data.agreementId, and ids no local row carries
MissingChargeId == <<>>
UnknownChargeId == <<0, <<0, 0, 0>>>>
MissingAgreementId == 0
UnknownAgreementId == 99

ChargeIdsOf(rows) == {rows[c].mobilepayChargeId : c \in RowIds(rows)}
AgreementIdsOf(rows) == {rows[a].mobilepayAgreementId : a \in RowIds(rows)}
\* the ways a delivery can name no local row
Strays == {"missing", "unknown"}
StrayChargeId(k) == IF k = "missing" THEN MissingChargeId ELSE UnknownChargeId
StrayAgreementId(k) == IF k = "missing" THEN MissingAgreementId ELSE UnknownAgreementId

\* handlers that go on to the status write whatever the id
chargeIdUnchecked(chargeId) == FALSE
\* the handlers' checks `if (!chargeId)` and `if (!agreementId)`
chargeIdMissing(chargeId) == chargeId = MissingChargeId
agreementIdMissing(agreementId) == agreementId = MissingAgreementId

\* processWebhook up to its first await: the dispatch on the event type and
\* the handler's missing-id check, which throws before anything is written
processWebhook(rq) ==
    IF rq.ev \in ChargeEvents
    THEN IF chargeIdMissing(rq.key) THEN Logged(rq, "missing")
         ELSE [rq EXCEPT !.pc = "w_update"]
    ELSE IF rq.ev \in AgreementEvents
    THEN IF agreementIdMissing(rq.id) THEN Logged(rq, "missing")
         ELSE [rq EXCEPT !.pc = "ws_update"]
    ELSE \* the switch's default: a warning is logged, nothing is thrown
         Logged(rq, "none")

\* the x-webhook-signature header of a delivery: none, one that matches
\* the payload, one that does not
NoSignature == "none"
Signatures == {NoSignature, "valid", "invalid"}

\* WebhookHandlerService.verifyWebhookSignature: not implemented, it logs a
\* warning and returns true
verifyWebhookSignature(payload, signature) == TRUE

\* the route with the delivery at hand: 401 when a signature is present and
\* not verified; else processWebhook is called without being awaited and the
\* answer is 200
webhookRoute(rq) ==
    IF rq.signature # NoSignature /\ ~verifyWebhookSignature(rq.ev, rq.signature)
    THEN Respond(rq, 401, "INVALID_SIGNATURE")
    ELSE processWebhook([rq EXCEPT !.res = 200])

\* a delivery arrives: it is of one of `types`, names a local row or one of
\* `strays` and carries one of `signatures`
WebhookDeliver(r, types, strays, signatures) ==
    /\ Free(r)
    /\ started.requests < MaxRequests
    /\ \E event \in types, signature \in signatures :
        LET fresh == [IdleReq EXCEPT !.kind = "webhook", !.ev = event,
                                     !.signature = signature]
        IN \/ /\ event \in ChargeEvents
              /\ \E chargeId \in ChargeIdsOf(charges) \cup {StrayChargeId(k) : k \in strays} :
                    req' = [req EXCEPT ![r] = webhookRoute([fresh EXCEPT !.key = chargeId])]
           \/ /\ event \in AgreementEvents
              /\ \E agreementId \in AgreementIdsOf(agreements)
                                        \cup {StrayAgreementId(k) : k \in strays} :
                    req' = [req EXCEPT ![r] = webhookRoute([fresh EXCEPT !.id = agreementId])]
           \/ /\ event \notin ChargeEvents \cup AgreementEvents
              /\ req' = [req EXCEPT ![r] = webhookRoute(fresh)]
    /\ started' = [started EXCEPT !.requests = @ + 1]
    /\ UNCHANGED <<auth, now, customers, agreements, subscriptions, charges, provider,
                   sweep, notifications, queue>>

\* a delivery without a signature header
WebhookAccept(r, types, strays) == WebhookDeliver(r, types, strays, {NoSignature})

\* the tables the webhook handlers write
Tables == <<agreements, charges, subscriptions>>

\* the provider delivers again a delivery it was answered with one of
\* `redelivered`: the same event, and the route runs as for the first
WebhookRedeliver(r, redelivered) ==
    /\ req[r].pc = "done"
    /\ req[r].kind = "webhook"
    /\ req[r].res \in redelivered
    /\ started.requests < MaxRequests
    /\ LET fresh == [IdleReq EXCEPT !.kind = "webhook", !.ev = req[r].ev,
                                    !.signature = req[r].signature,
                                    !.key = req[r].key, !.id = req[r].id,
                                    !.first = [err |-> req[r].err, tables |-> Tables]]
       IN req' = [req EXCEPT ![r] = webhookRoute(fresh)]
    /\ started' = [started EXCEPT !.requests = @ + 1]
    /\ UNCHANGED <<auth, now, customers, agreements, subscriptions, charges, provider,
                   sweep, notifications, queue>>

\* a status write that creates the row it does not find
updateChargeStatusUpsert(rows, chargeId, status) ==
    IF chargeId \in ChargeIdsOf(rows)
    THEN [c \in RowIds(rows) |->
            IF rows[c].mobilepayChargeId = chargeId
            THEN [rows[c] EXCEPT !.status = status] ELSE rows[c]]
    ELSE Append(rows, [rows[1] EXCEPT !.mobilepayChargeId = chargeId,
                                      !.status = status])

\* a status write that moves a row already in the status on to refunded
updateChargeStatusAdvancing(rows, chargeId, status) ==
    [c \in RowIds(rows) |->
        IF rows[c].mobilepayChargeId = chargeId
        THEN [rows[c] EXCEPT !.status = IF @ = status THEN "refunded" ELSE status]
        ELSE rows[c]]

\* a status write that leaves a row alone once its charge has ended
updateChargeStatusKeepsTerminal(rows, chargeId, status) ==
    [c \in RowIds(rows) |->
        IF /\ rows[c].mobilepayChargeId = chargeId
           /\ rows[c].status \notin {"charged", "failed", "cancelled"}
        THEN [rows[c] EXCEPT !.status = status] ELSE rows[c]]

\* prisma.charge.updateMany({mobilepayChargeId}, {status})
updateChargeStatus(rows, chargeId, status) ==
    [c \in RowIds(rows) |->
        IF rows[c].mobilepayChargeId = chargeId
        THEN [rows[c] EXCEPT !.status = status] ELSE rows[c]]

\* handleCharge*: the status write
WebhookChargeUpdate(r) ==
    /\ req[r].pc = "w_update"
    /\ \/ /\ req' = [req EXCEPT ![r] = Logged(@, "db")]
          /\ UNCHANGED charges
       \/ /\ charges' = updateChargeStatus(charges, req[r].key,
                                           ChargeEventStatus(req[r].ev))
          /\ IF ChargeEventNotifies(req[r].ev)
             THEN req' = [req EXCEPT ![r].pc = "w_notify"]
             ELSE req' = [req EXCEPT ![r] = Logged(@, "none")]
    /\ UNCHANGED <<auth, now, customers, agreements, subscriptions, provider, sweep, started,
                   notifications, queue>>

\* handleChargeCharged / handleChargeFailed: the charge is read back and, if
\* there is one, the downstream notification is sent
WebhookChargeNotify(r, downstream) ==
    /\ req[r].pc = "w_notify"
    /\ \/ /\ req' = [req EXCEPT ![r] = Logged(@, "db")]
          /\ UNCHANGED notifications
       \/ IF req[r].key \in ChargeIdsOf(charges)
          THEN /\ IF req[r].ev = "recurring.charge-charged.v1"
                  THEN notifications' = [notifications EXCEPT !.success = @ + 1]
                  ELSE notifications' = [notifications EXCEPT !.failed = @ + 1]
               /\ \E responses \in downstream :
                    LET ranked == [req[r] EXCEPT !.seq =
                                    notifications.success + notifications.failed + 1]
                        after == AfterNotify(ranked, sendNotification(responses))
                    IN req' = [req EXCEPT ![r] = Logged(after, after.err)]
          ELSE /\ UNCHANGED notifications
               /\ req' = [req EXCEPT ![r] = Logged(@, "none")]
    /\ UNCHANGED <<auth, now, customers, agreements, subscriptions, charges, provider,
                   sweep, started, queue>>

\* AgreementService.handleAgreementStopped: the agreement's status write
WebhookStopUpdate(r) ==
    /\ req[r].pc = "ws_update"
    /\ \/ /\ req' = [req EXCEPT ![r] = Logged(@, "db")]
          /\ UNCHANGED agreements
       \/ /\ agreements' = stopAgreements(agreements, req[r].id)
          /\ req' = [req EXCEPT ![r].pc = "ws_find"]
    /\ UNCHANGED <<auth, now, customers, subscriptions, charges, provider, sweep, started,
                   notifications, queue>>

\* prisma.agreement.findFirst({mobilepayAgreementId}): the row id, or 0
findFirstAgreement(rows, mobilepayAgreementId) ==
    LET hits == {a \in RowIds(rows) : rows[a].mobilepayAgreementId = mobilepayAgreementId}
    IN IF hits = {} THEN 0 ELSE CHOOSE a \in hits : \A o \in hits : a <= o

\* an agreement read without its subscriptions
NoSubscriptions(subs, agreementId, k) == <<>>

\* the ids of an agreement's subscriptions, in table order
RECURSIVE SubscriptionsOf(_, _, _)
SubscriptionsOf(subs, agreementId, k) ==
    IF k > Len(subs) THEN <<>>
    ELSE (IF subs[k].agreementId = agreementId THEN <<k>> ELSE <<>>)
            \o SubscriptionsOf(subs, agreementId, k + 1)

\* AgreementService.handleAgreementStopped: the agreement is read with its
\* subscriptions
WebhookStopFind(r) ==
    /\ req[r].pc = "ws_find"
    /\ \/ req' = [req EXCEPT ![r] = Logged(@, "db")]
       \/ LET agreement == findFirstAgreement(agreements, req[r].id)
              subs == IF agreement = 0 THEN <<>>
                      ELSE SubscriptionsOf(subscriptions, agreement, 1)
          IN req' = [req EXCEPT ![r].snap = subs,
                                ![r].pc = IF subs = <<>> THEN "ws_notify" ELSE "ws_cancel"]
    /\ UNCHANGED <<auth, now, customers, agreements, subscriptions, charges, provider,
                   sweep, started, notifications, queue>>

\* AgreementService.handleAgreementStopped: one subscription is cancelled
WebhookStopCancel(r) ==
    /\ req[r].pc = "ws_cancel"
    /\ \/ /\ req' = [req EXCEPT ![r] = Logged(@, "db")]
          /\ UNCHANGED subscriptions
       \/ /\ subscriptions' = [subscriptions EXCEPT
                                    ![Head(req[r].snap)].status = "cancelled"]
          /\ req' = [req EXCEPT ![r].snap = Tail(@),
                        ![r].pc = IF Tail(req[r].snap) = <<>> THEN "ws_notify"
                                  ELSE "ws_cancel"]
    /\ UNCHANGED <<auth, now, customers, agreements, charges, provider, sweep, started,
                   notifications, queue>>

\* handleAgreementStopped: the agreement is read back and, if there is one,
\* notifyAgreementCancelled is called
WebhookStopNotify(r, downstream) ==
    /\ req[r].pc = "ws_notify"
    /\ \/ /\ req' = [req EXCEPT ![r] = Logged(@, "db")]
          /\ UNCHANGED notifications
       \/ IF findFirstAgreement(agreements, req[r].id) # 0
          THEN /\ notifications' = [notifications EXCEPT !.cancelled = @ + 1]
               /\ \E responses \in downstream :
                    LET after == AfterNotify(req[r], sendNotification(responses))
                    IN req' = [req EXCEPT ![r] = Logged(after, after.err)]
          ELSE /\ UNCHANGED notifications
               /\ req' = [req EXCEPT ![r] = Logged(@, "none")]
    /\ UNCHANGED <<auth, now, customers, agreements, subscriptions, charges, provider,
                   sweep, started, queue>>

(***************************************************************************)
(* AccessTokenService: the cached access token.  Times are milliseconds,    *)
(* as Date.now() gives them; a token is the number the provider issued it   *)
(* under.  The continuation of a fetch runs to its return without another   *)
(* response in between, so a response is one step.                          *)
(***************************************************************************)
\* what the clock gains between two looks at it
Elapses == {1, 1000, 300000}
\* the lifetimes the provider gives a token, expires_in, in seconds
ExpiresIn == {301, 600}

TokenTick ==
    /\ auth.ticks < MaxTicks
    /\ \E e \in Elapses : auth' = [auth EXCEPT !.time = @ + e, !.ticks = @ + 1]
    /\ UNCHANGED <<now, customers, agreements, subscriptions, charges, provider,
                   sweep, req, started, notifications, queue>>

\* a check that takes a token with exactly the buffer left as valid
isTokenValidAtBuffer(cache) ==
    IF cache.tokenExpiry = NoToken THEN FALSE
    ELSE cache.tokenExpiry - cache.time >= tokenBuffer * 1000
isTokenValid(cache) ==
    IF cache.tokenExpiry = NoToken THEN FALSE
    ELSE cache.tokenExpiry - cache.time > tokenBuffer * 1000

\* getAccessToken up to its first await: the cached token is returned, or
\* the fetch is sent
GetAccessToken(r) ==
    /\ Free(r)
    /\ auth.calls < MaxCalls
    /\ IF auth.accessToken # NoToken /\ isTokenValid(auth)
       THEN /\ req' = [req EXCEPT ![r] = [IdleReq EXCEPT
                    !.kind = "token", !.old = "cache", !.id = auth.accessToken,
                    !.pc = "done"]]
            /\ auth' = [auth EXCEPT !.calls = @ + 1]
       ELSE /\ req' = [req EXCEPT ![r] = [IdleReq EXCEPT
                    !.kind = "token", !.old = "fetch", !.pc = "t_fetch"]]
            /\ auth' = [auth EXCEPT !.calls = @ + 1, !.fetches = @ + 1]
    /\ UNCHANGED <<now, customers, agreements, subscriptions, charges, provider,
                   sweep, started, notifications, queue>>

\* a refresh that keeps the expiry the cache has when it has one
refreshTokenStoreKeepsExpiry(cache, token, expiresIn) ==
    [cache EXCEPT !.accessToken = token,
                  !.tokenExpiry = IF @ = NoToken THEN cache.time + expiresIn * 1000
                                  ELSE @]
\* refreshToken with the response at hand
refreshTokenStore(cache, token, expiresIn) ==
    [cache EXCEPT !.accessToken = token,
                  !.tokenExpiry = cache.time + expiresIn * 1000]

\* a catch block that leaves the cache as it is
refreshTokenCatchKeeps(cache) == cache
\* the catch block of refreshToken
refreshTokenCatch(cache) ==
    [cache EXCEPT !.accessToken = NoToken, !.tokenExpiry = NoToken]

\* the provider answers the fetch: refreshToken ends and getAccessToken
\* returns or throws
TokenResponse(r) ==
    /\ req[r].pc = "t_fetch"
    /\ \/ /\ auth' = [refreshTokenCatch(auth) EXCEPT !.stale = Len(auth.issued)]
          /\ req' = [req EXCEPT ![r].pc = "done",
                        ![r].err = "Failed to obtain MobilePay access token"]
       \/ \E expiresIn \in ExpiresIn :
            LET token == Len(auth.issued) + 1
                cache == refreshTokenStore(auth, token, expiresIn)
            IN  /\ auth' = [cache EXCEPT
                        !.issued = Append(@, auth.time + expiresIn * 1000)]
                /\ IF cache.accessToken = NoToken
                   THEN req' = [req EXCEPT ![r].pc = "done",
                                    ![r].err = "Failed to obtain access token"]
                   ELSE req' = [req EXCEPT ![r].pc = "done",
                                    ![r].id = cache.accessToken]
    /\ UNCHANGED <<now, customers, agreements, subscriptions, charges, provider,
                   sweep, started, notifications, queue>>

(***************************************************************************)
(* The scheduler with the requests that reach its tables, started from     *)
(* the tables as create requests, the users' acceptance and status polls   *)
(* leave them: every agreement active with its one subscription.           *)
(***************************************************************************)
\* the plan and the clock reading of the create request behind a seeded row:
\* requests made at midnight sharp, whose first billing date is a midnight
SeedLinks(a) ==
    IF a % 2 = 1
    THEN [plan |-> "monthly", created |-> [y |-> 2026, m |-> 1, d |-> 1, t |-> 0]]
    ELSE [plan |-> "annual", created |-> [y |-> 2025, m |-> 2, d |-> 1, t |-> 0]]

InitScheduler ==
    LET seed == [a \in 1..MaxAgreements |-> SeedLinks(a)] IN
        /\ now = [y |-> 2026, m |-> 1, d |-> 1, t |-> 1]
        /\ customers = <<[email |-> "a@x.dk"]>>
        /\ agreements = [a \in 1..MaxAgreements |->
                [NewAgreementRow(1, a, seed[a].plan, planAmount)
                    EXCEPT !.status = "active"]]
        /\ subscriptions = [a \in 1..MaxAgreements |->
                NewSubscriptionRow(1, a, seed[a].plan, seed[a].created)]
        /\ charges = <<>>
        /\ provider = [agreements |-> [a \in 1..MaxAgreements |-> "ACTIVE"],
                       charges |-> {}]
        /\ sweep = [s \in Triggers |-> IdleSweep]
        /\ req = [r \in Slots |-> IdleReq]
        /\ started = [create |-> MaxAgreements, requests |-> 0, sweep |-> 0]
        /\ notifications = [activated |-> MaxAgreements,
                             activatedFor |-> [a \in 1..MaxAgreements |-> 1],
                             cancelled |-> 0,
                            success |-> 0, failed |-> 0]
        /\ queue = {}
        /\ auth = EmptyAuth

\* the deliveries that reach the scheduler's tables
SchedulerEvents == {"recurring.charge-failed.v1", "recurring.agreement-stopped.v1"}

SweepStep(s, clock) ==
    \/ SweepQuery(s, clock)
    \/ SweepFindExisting(s)
    \/ SweepCreateCharge(s)
    \/ SweepAdvance(s)
    \/ SweepReturn(s)

CreateStep(r) ==
    \/ CreateFindCustomer(r)
    \/ CreateCustomer(r)
    \/ CreateProviderAgreement(r)
    \/ CreateAgreementRow(r)
    \/ CreateSubscriptionRow(r)

PollStep(r, downstream) ==
    \/ PollFind(r)
    \/ PollStatus(r)
    \/ PollUpdate(r)
    \/ PollNotify(r, downstream)

CancelStep(r) ==
    \/ CancelFind(r)
    \/ CancelProvider(r)
    \/ CancelUpdate(r)

RetryStep(r) ==
    \/ RetryFind(r)
    \/ RetryCreateCharge(r)

WebhookStopStep(r, downstream) ==
    \/ WebhookStopUpdate(r)
    \/ WebhookStopFind(r)
    \/ WebhookStopCancel(r)
    \/ WebhookStopNotify(r, downstream)

WebhookStep(r, downstream) ==
    \/ WebhookChargeUpdate(r)
    \/ WebhookChargeNotify(r, downstream)
    \/ WebhookStopStep(r, downstream)

\* the due dates a seeded subscription has been advanced past: its first
\* billing date and the dates one period on, as far as they lie before the
\* date it has now
RECURSIVE DueDatesBefore(_, _, _, _)
DueDatesBefore(date, current, agreement, n) ==
    IF n = 0 \/ ~DateLess(date, current) THEN {}
    ELSE {date} \cup DueDatesBefore(
            calculateNextBillingDate(date, agreement.intervalUnit,
                                     agreement.intervalCount).date,
            current, agreement, n - 1)

AdvancedPast(l) ==
    DueDatesBefore(firstBillingDate(SeedLinks(l).created, SeedLinks(l).plan),
                   subscriptions[l].nextBillingDate,
                   agreements[subscriptions[l].agreementId], MaxSweepRuns + 1)

\* one trigger alone: every sweep starts after the one before it returned
NextSequential == SweepStep("cron", SweepClock)

SpecSequential == InitScheduler /\ [][NextSequential]_vars

\* the cron job and the manual trigger, free to overlap
NextOverlap == \E s \in Triggers : SweepStep(s, SweepClock)

SpecOverlap == InitScheduler /\ [][NextOverlap]_vars

NextScheduler ==
    \/ \E s \in Triggers : SweepStep(s, JanuaryClock)
    \/ \E r \in Serial :
        \/ CancelStep(r)
        \/ RetryStep(r)
        \/ WebhookAccept(r, SchedulerEvents, {})
        \/ WebhookStep(r, Delivers)
        \/ RequestEnd(r)

SpecScheduler == InitScheduler /\ [][NextScheduler]_vars

(***************************************************************************)
(* End to end: from the empty tables through create requests, the users'   *)
(* acceptance and status polls to the cron job's sweeps.                   *)
(***************************************************************************)
NextEndToEnd ==
    \/ ProviderAccept
    \/ SweepStep("cron", {DueDay})
    \/ \E r \in Serial :
        \/ CreateStep(r)
        \/ PollStep(r, Delivers)
        \/ RequestEnd(r)

SpecEndToEnd == Init /\ [][NextEndToEnd]_vars

(***************************************************************************)
(* The webhook endpoint alone, started from the tables as a sweep leaves   *)
(* them: every agreement with a pending charge for the first of February.  *)
(***************************************************************************)
InitWebhook ==
    LET seed == [a \in 1..MaxAgreements |-> SeedLinks(a)]
        due == [a \in 1..MaxAgreements |-> firstBillingDate(seed[a].created, seed[a].plan)]
    IN  /\ now = DueDay
        /\ customers = <<[email |-> "a@x.dk"]>>
        /\ agreements = [a \in 1..MaxAgreements |->
                [NewAgreementRow(1, a, seed[a].plan, planAmount)
                    EXCEPT !.status = "active"]]
        /\ subscriptions = [a \in 1..MaxAgreements |->
                [NewSubscriptionRow(1, a, seed[a].plan, seed[a].created)
                    EXCEPT !.nextBillingDate =
                        calculateNextBillingDate(due[a], agreements[a].intervalUnit,
                                                 agreements[a].intervalCount).date]]
        /\ charges = [a \in 1..MaxAgreements |->
                NewChargeRow(a, ProviderChargeId(a, due[a]), agreements[a].amount,
                             chargeDescription(agreements[a].productName, due[a]),
                             due[a], "PENDING", schedulerRetryDays)]
        /\ provider = [agreements |-> [a \in 1..MaxAgreements |-> "ACTIVE"],
                       charges |-> {IdempotencyKey(a, due[a]) : a \in 1..MaxAgreements}]
        /\ sweep = [s \in Triggers |-> IdleSweep]
        /\ req = [r \in Slots |-> IdleReq]
        /\ started = [create |-> MaxAgreements, requests |-> 0, sweep |-> 1]
        /\ notifications = [activated |-> MaxAgreements,
                             activatedFor |-> [a \in 1..MaxAgreements |-> 1],
                             cancelled |-> 0,
                            success |-> 0, failed |-> 0]
        /\ queue = 1..MaxAgreements
        /\ auth = EmptyAuth

NextWebhook ==
    \E r \in Serial :
        \/ WebhookAccept(r, EventTypes, Strays)
        \/ WebhookStep(r, Downstream)
        \/ RequestEnd(r)

SpecWebhook == InitWebhook /\ [][NextWebhook]_vars

\* calculateNextBillingDate by itself: the dates, units and counts it is
\* applied to
BillingDates ==
    {date \in [y : {2024, 2025, 2026}, m : 1..12, d : {1, 15, 28, 29, 30, 31},
               t : {0, 1}] : date.d <= DaysInMonth(date.y, date.m)}
UnknownUnit == "FORTNIGHT"
IntervalCounts == {1, 6, 12}

InitBilling ==
    /\ now \in BillingDates
    /\ customers = <<>>
    /\ agreements = <<>>
    /\ subscriptions = <<>>
    /\ charges = <<>>
    /\ provider = [agreements |-> <<>>, charges |-> {}]
    /\ sweep = [s \in Triggers |-> IdleSweep]
    /\ req = [r \in Slots |-> IdleReq]
    /\ started = [create |-> 0, requests |-> 0, sweep |-> 0]
    /\ notifications = [activated |-> 0, cancelled |-> 0, success |-> 0, failed |-> 0,
                        activatedFor |-> [a \in 1..MaxAgreements |-> 0]]
    /\ queue = {}
    /\ auth = EmptyAuth

\* one application: the date that went in and what came out
NextBilling(r) ==
    /\ Free(r)
    /\ \E intervalUnit \in IntervalUnits \cup {UnknownUnit},
          intervalCount \in IntervalCounts :
        LET next == calculateNextBillingDate(now, intervalUnit, intervalCount)
        IN req' = [req EXCEPT ![r] = [IdleReq EXCEPT
                !.kind = "next", !.plan = intervalUnit, !.loc = intervalCount,
                !.snap = <<now, next.date>>,
                !.err = IF next.threw THEN "Invalid interval unit" ELSE "none",
                !.pc = "done"]]
    /\ UNCHANGED <<now, customers, agreements, subscriptions, charges, provider,
                   sweep, started, notifications, queue, auth>>

NextBillingDate == \E r \in Serial : NextBilling(r)

SpecBilling == InitBilling /\ [][NextBillingDate]_vars

\* the callers of the token service, overlapping, and the clock
NextToken ==
    \/ TokenTick
    \/ \E r \in Slots :
        \/ GetAccessToken(r)
        \/ TokenResponse(r)
        \/ RequestEnd(r)

SpecToken == Init /\ [][NextToken]_vars

\* create requests that may overlap, from empty tables
NextCreate ==
    \E r \in Slots :
        \/ CreateStep(r)
        \/ RequestEnd(r)

SpecCreate == Init /\ [][NextCreate]_vars

\* the admin retry after charge deliveries, from the tables as a sweep leaves
\* them
NextRetry ==
    \E r \in Serial :
        \/ WebhookAccept(r, ChargeEvents, {})
        \/ WebhookChargeUpdate(r)
        \/ WebhookChargeNotify(r, Delivers)
        \/ RetryStep(r)
        \/ RequestEnd(r)

SpecRetry == InitWebhook /\ [][NextRetry]_vars

\* two deliveries for charges, charge-charged and charge-failed, whose
\* detached reconciliations may overlap
NextReconcile ==
    \E r \in Slots :
        \/ WebhookAccept(r, {"recurring.charge-charged.v1",
                             "recurring.charge-failed.v1"}, {})
        \/ WebhookChargeUpdate(r)
        \/ WebhookChargeNotify(r, Delivers)
        \/ RequestEnd(r)

SpecReconcile == InitWebhook /\ [][NextReconcile]_vars

\* charge deliveries with and without a signature header
NextSigned ==
    \E r \in Serial :
        \/ WebhookDeliver(r, ChargeEvents, {}, Signatures)
        \/ WebhookChargeUpdate(r)
        \/ WebhookChargeNotify(r, Delivers)
        \/ RequestEnd(r)

SpecSigned == InitWebhook /\ [][NextSigned]_vars

\* the webhook endpoint under a provider that delivers at least once: a
\* delivery answered 200 may come again
NextRedelivery ==
    \E r \in Serial :
        \/ WebhookAccept(r, EventTypes, Strays)
        \/ WebhookRedeliver(r, {200})
        \/ WebhookStep(r, Delivers)
        \/ RequestEnd(r)

SpecRedelivery == InitWebhook /\ [][NextRedelivery]_vars

(***************************************************************************)
(* Properties of the scheduler.                                            *)
(***************************************************************************)
\* the charge rows of an agreement for a due date
ChargeRowsFor(agreementId, dueDate) ==
    {c \in RowIds(charges) :
        charges[c].agreementId = agreementId /\ charges[c].dueDate = dueDate}

\* the candidates a sweep has finished with
Processed(s) ==
    IF sweep[s].pc = "done" THEN 1..Len(sweep[s].subs)
    ELSE IF sweep[s].pc = "idle" THEN {}
    ELSE 1..(sweep[s].i - 1)

C2_OverlapOneCharge ==
    \A s \in Triggers : \A k \in 1..Len(sweep[s].subs) :
        LET rows == ChargeRowsFor(sweep[s].subs[k].agreementId, sweep[s].targetDate)
        IN /\ Cardinality(rows) <= 1
           /\ (k \in Processed(s) /\ sweep[s].subs[k].id \notin sweep[s].failedLog)
                => Cardinality(rows) = 1

\* both sweeps passed the lookup for one candidate before either inserted;
\* the cron sweep has inserted its row, the manual one is about to
C2_Witness ==
    /\ sweep["cron"].pc = "advance"
    /\ sweep["manual"].pc = "create"
    /\ sweep["cron"].targetDate = sweep["manual"].targetDate
    /\ sweep["cron"].subs[sweep["cron"].i].id = sweep["manual"].subs[sweep["manual"].i].id
    /\ ChargeRowsFor(Candidate("cron").agreementId, sweep["cron"].targetDate) # {}

\* C3: when the per-candidate step runs for an agreement and due date that
\* already have a charge row, it stops at the lookup: the provider request
\* and the insert are reached only while no such row exists, and a skipped
\* candidate has exactly one row.
C3_SecondStepSkips ==
    \A s \in Triggers :
        /\ sweep[s].pc = "create" =>
              ChargeRowsFor(Candidate(s).agreementId, Candidate(s).nextBillingDate) = {}
        /\ \A k \in 1..Len(sweep[s].subs) :
              sweep[s].subs[k].id \in sweep[s].skipped =>
                  Cardinality(ChargeRowsFor(sweep[s].subs[k].agreementId,
                                            sweep[s].targetDate)) = 1

\* a later sweep met the charge row an earlier sweep left and skipped it
C3_Witness ==
    /\ started.sweep = 2
    /\ sweep["cron"].skipped # {}

\* C4 (as claimed): once no sweep is at work, each subscription has been
\* advanced as many times as its agreement has charge rows.
C4_AdvancesEqualCharges ==
    (\A s \in Triggers : sweep[s].pc \in {"idle", "done"}) =>
        \A k \in RowIds(subscriptions) :
            LET agreement == agreements[subscriptions[k].agreementId]
                first == firstBillingDate(SeedLinks(k).created, SeedLinks(k).plan)
                second == calculateNextBillingDate(first, agreement.intervalUnit,
                                                   agreement.intervalCount).date
                advances == IF subscriptions[k].nextBillingDate = first THEN 0
                            ELSE IF subscriptions[k].nextBillingDate = second THEN 1
                            ELSE 2
            IN advances = Cardinality({c \in RowIds(charges) :
                              charges[c].agreementId = subscriptions[k].agreementId})

\* C6 (as claimed): a charge row is only ever added for an agreement whose
\* status is pending or active when the row is added.
C6_ChargeOnlyIfLive ==
    [][Len(charges') > Len(charges) =>
        agreements[charges'[Len(charges')].agreementId].status
            \in {"pending", "active"}]_vars

\* C7: a failure on one candidate is counted and logged and the loop goes on:
\* while the loop runs, the candidates before the current one are each counted
\* once, as a success or as an error, and a sweep that completed has counted
\* every candidate its query returned.
C7_FailureDoesNotAbort ==
    \A s \in Triggers :
        /\ sweep[s].pc \in {"find", "create", "advance"} =>
              /\ sweep[s].i \in 1..Len(sweep[s].subs)
              /\ sweep[s].successCount + sweep[s].errorCount = sweep[s].i - 1
        /\ (sweep[s].pc = "done" /\ sweep[s].logged = "completed") =>
              sweep[s].successCount + sweep[s].errorCount = Len(sweep[s].subs)
        /\ Cardinality(sweep[s].failedLog) = sweep[s].errorCount

\* the first of two candidates failed and the second was still charged
C7_Witness ==
    \E s \in Triggers :
        /\ sweep[s].pc = "done" /\ sweep[s].logged = "completed"
        /\ Len(sweep[s].subs) = 2
        /\ sweep[s].failedLog = {sweep[s].subs[1].id}
        /\ sweep[s].successCount = 1
        /\ sweep[s].subs[2].id \notin sweep[s].skipped

\* C8 (as claimed): a candidate whose monitor-charge job could not be
\* enqueued is not reported as a failed candidate.
C8_QueueFailureNotReported ==
    \A s \in Triggers : sweep[s].queueErr \cap sweep[s].failedLog = {}

\* C9: scheduleUpcomingCharges never throws to its caller, whether candidates
\* fail or the query fails, and the step in which the query fails adds no
\* charge, changes no subscription and ends the sweep.
C9_SweepNeverThrows ==
    [][\A s \in Triggers :
        /\ sweep'[s].outcome # "threw"
        /\ sweep'[s].pc = "done" => sweep'[s].outcome = "returned"
        /\ (sweep[s].pc = "idle" /\ sweep'[s].logged = "failed") =>
              /\ sweep'[s].pc = "done"
              /\ sweep'[s].subs = <<>>
              /\ charges' = charges
              /\ subscriptions' = subscriptions
              /\ provider' = provider]_vars

\* one sweep returned after its query failed, another after a candidate failed
C9_Witness ==
    /\ sweep["cron"].pc = "done" /\ sweep["cron"].logged = "failed"
    /\ sweep["cron"].outcome = "returned"
    /\ sweep["manual"].pc = "done" /\ sweep["manual"].errorCount > 0
    /\ sweep["manual"].outcome = "returned"

(***************************************************************************)
(* Properties end to end and of the webhook endpoint.                      *)
(***************************************************************************)
\* C5 (as claimed): the sweep that reads the clock on the calendar day
\* advanceDays days before the next billing date of a monthly link, made by
\* the create route and with its agreement active, selects that link.
C5_SweepSelectsCreatedLink ==
    [][(/\ sweep["cron"].pc = "idle"
        /\ sweep'["cron"].pc # "idle"
        /\ sweep'["cron"].logged # "failed") =>
        \A k \in RowIds(subscriptions) :
            (/\ subscriptions[k].planType = "monthly"
             /\ subscriptions[k].status = "active"
             /\ agreements[subscriptions[k].agreementId].status = "active"
             /\ dueDateStr(setDate(now', advanceDays))
                    = dueDateStr(subscriptions[k].nextBillingDate))
            => \E j \in 1..Len(sweep'["cron"].subs) :
                    sweep'["cron"].subs[j].id = k]_vars

\* C10: the dispatch follows the table.  A charge event's status write sets
\* the rows carrying the event's provider charge id to the status of its type
\* and no other row, and a charge event changes no agreement or subscription;
\* only agreement-stopped, charge-charged and charge-failed notify, each its
\* own notification; an unrecognized type ends with nothing changed and no
\* error.
C10_DispatchTable ==
    [][\A r \in Serial :
        LET ev == IF req[r].pc = "idle" THEN req'[r].ev ELSE req[r].ev
            written ==
                CASE ev = "recurring.charge-created.v1" -> "pending"
                  [] ev = "recurring.charge-due.v1" -> "due"
                  [] ev = "recurring.charge-reserved.v1" -> "reserved"
                  [] ev = "recurring.charge-charged.v1" -> "charged"
                  [] ev = "recurring.charge-failed.v1" -> "failed"
                  [] ev = "recurring.charge-cancelled.v1" -> "cancelled"
                  [] OTHER -> "none"
        IN  /\ (req[r].pc = "w_update" /\ req'[r].err # "db") =>
                  /\ Len(charges') = Len(charges)
                  /\ \A c \in RowIds(charges) :
                        charges'[c] =
                            IF charges[c].mobilepayChargeId = req[r].key
                            THEN [charges[c] EXCEPT !.status = written]
                            ELSE charges[c]
            /\ (written # "none") =>
                  /\ agreements' = agreements
                  /\ subscriptions' = subscriptions
                  /\ notifications'.cancelled = notifications.cancelled
            /\ req[r].pc # "w_update" => charges' = charges
            /\ notifications'.success # notifications.success =>
                  ev = "recurring.charge-charged.v1"
            /\ notifications'.failed # notifications.failed =>
                  ev = "recurring.charge-failed.v1"
            /\ notifications'.cancelled # notifications.cancelled =>
                  ev = "recurring.agreement-stopped.v1"
            /\ (req[r].pc = "idle" /\ req'[r].pc # "idle"
                    /\ ev \notin {"recurring.agreement-stopped.v1"} /\ written = "none") =>
                  /\ req'[r].pc = "done" /\ req'[r].err = "none"
                  /\ <<customers, agreements, subscriptions, charges, notifications>>'
                        = <<customers, agreements, subscriptions, charges, notifications>>
       ]_vars

\* a charge-reserved delivery has set its charge row to reserved and left the
\* other agreement's row pending
C10_Witness ==
    \E r \in Slots : \E c, d \in RowIds(charges) :
        /\ req[r].pc = "done" /\ req[r].ev = "recurring.charge-reserved.v1"
        /\ req[r].err = "none"
        /\ charges[c].mobilepayChargeId = req[r].key /\ charges[c].status = "reserved"
        /\ charges[d].mobilepayChargeId # req[r].key /\ charges[d].status = "pending"

(***************************************************************************)
(* The status of an agreement: started from the tables as create requests  *)
(* leave them, every agreement pending; the users accept and stop          *)
(* agreements in the app, and status polls, cancel requests and the        *)
(* provider's agreement-stopped deliveries run two at a time.              *)
(***************************************************************************)
InitStatus ==
    LET seed == [a \in 1..MaxAgreements |-> SeedLinks(a)] IN
        /\ now = [y |-> 2026, m |-> 1, d |-> 1, t |-> 1]
        /\ customers = <<[email |-> "a@x.dk"]>>
        /\ agreements = [a \in 1..MaxAgreements |->
                NewAgreementRow(1, a, seed[a].plan, planAmount)]
        /\ subscriptions = [a \in 1..MaxAgreements |->
                NewSubscriptionRow(1, a, seed[a].plan, seed[a].created)]
        /\ charges = <<>>
        /\ provider = [agreements |-> [a \in 1..MaxAgreements |-> "PENDING"],
                       charges |-> {}]
        /\ sweep = [s \in Triggers |-> IdleSweep]
        /\ req = [r \in Slots |-> IdleReq]
        /\ started = [create |-> MaxAgreements, requests |-> 0, sweep |-> 0]
        /\ notifications = [activated |-> 0, cancelled |-> 0, success |-> 0, failed |-> 0,
                        activatedFor |-> [a \in 1..MaxAgreements |-> 0]]
        /\ queue = {}
        /\ auth = EmptyAuth

\* the provider delivers agreement-stopped for an agreement stopped on its side
StopDelivery(r) ==
    /\ WebhookAccept(r, AgreementEvents, {})
    /\ provider.agreements[req'[r].id] = "STOPPED"

NextStatus ==
    \/ ProviderAccept
    \/ ProviderStop
    \/ \E r \in Slots :
        \/ PollStep(r, Downstream)
        \/ CancelStep(r)
        \/ StopDelivery(r)
        \/ WebhookStopStep(r, Downstream)
        \/ RequestEnd(r)

SpecStatus == InitStatus /\ [][NextStatus]_vars

\* a status poll that starts when no other request is in progress
PollAlone(r, downstream) ==
    /\ PollStep(r, downstream)
    /\ \A o \in Slots \ {r} : req[o].pc \in {"idle", "done"}

\* status polls one after the other, while the users accept and stop
\* agreements in the app
NextPolls ==
    \/ ProviderAccept
    \/ ProviderStop
    \/ \E r \in Slots :
        \/ PollAlone(r, Downstream)
        \/ RequestEnd(r)

SpecPolls == InitStatus /\ [][NextPolls]_vars

\* the answers that are not a success
HttpFailures == {401, 500}

\* the provider has the answer to its delivery: it delivers again when the
\* answer is one of `redelivered`, and is done with the delivery otherwise
DeliveryEnd(r, redelivered) ==
    /\ req[r].pc = "done"
    /\ \/ WebhookRedeliver(r, redelivered)
       \/ req[r].res \notin redelivered /\ RequestEnd(r)

\* the webhook endpoint under a provider that delivers again only what was
\* not answered with a success; every handler that can run does run, and the
\* provider keeps delivering while it has something to deliver
NextAcknowledged ==
    \E r \in Serial :
        \/ WebhookAccept(r, EventTypes, Strays)
        \/ WebhookStep(r, Delivers)
        \/ DeliveryEnd(r, HttpFailures)

SpecAcknowledged ==
    InitWebhook /\ [][NextAcknowledged]_vars /\ WF_vars(NextAcknowledged)

(***************************************************************************)
(* Properties of the webhook handlers.                                     *)
(***************************************************************************)
\* C11: every handler is idempotent under re-delivery.  While and after an
\* event is processed again whose first processing ended without an error,
\* the agreements, charges and subscriptions are what the first processing
\* left, and the second processing ends with no error of its own (only a
\* database failure can end it early).
C11_RedeliveryIdempotent ==
    \A r \in Slots :
        req[r].first.err = "none" =>
            /\ Tables = req[r].first.tables
            /\ req[r].err \in {"none", "db"}

\* charge-charged was processed a second time to its end: the charge is
\* charged as the first processing left it (and downstream was notified twice)
C11_Witness ==
    \E r \in Slots :
        /\ req[r].pc = "done" /\ req[r].err = "none" /\ req[r].first.err = "none"
        /\ req[r].ev = "recurring.charge-charged.v1"
        /\ \E c \in RowIds(charges) :
                /\ charges[c].mobilepayChargeId = req[r].key
                /\ charges[c].status = "charged"
        /\ notifications.success = 2

\* C12: cascade on stop.  Once AgreementService.handleAgreementStopped has
\* completed for a delivery, every agreement carrying the delivery's provider
\* agreement id is stopped and every subscription of it is cancelled.
C12_CascadeOnStop ==
    \A r \in Slots :
        (/\ req[r].ev = "recurring.agreement-stopped.v1"
         /\ \/ req[r].pc = "ws_notify"
            \/ req[r].pc = "done" /\ req[r].err = "none")
        => \A a \in RowIds(agreements) :
                agreements[a].mobilepayAgreementId = req[r].id =>
                    /\ agreements[a].status = "stopped"
                    /\ \A k \in RowIds(subscriptions) :
                            subscriptions[k].agreementId = a =>
                                subscriptions[k].status = "cancelled"

\* agreement-stopped was processed to its end for an agreement with a
\* subscription: the agreement is stopped, the subscription cancelled, and
\* the other agreement and its subscription are active as before
C12_Witness ==
    \E r \in Slots : \E a, b \in RowIds(agreements) : \E k, l \in RowIds(subscriptions) :
        /\ req[r].pc = "done" /\ req[r].err = "none"
        /\ req[r].ev = "recurring.agreement-stopped.v1"
        /\ agreements[a].mobilepayAgreementId = req[r].id
        /\ agreements[a].status = "stopped"
        /\ subscriptions[k].agreementId = a /\ subscriptions[k].status = "cancelled"
        /\ agreements[b].status = "active"
        /\ subscriptions[l].agreementId = b /\ subscriptions[l].status = "active"

\* C13: a delivery without the id its handler requires fails with the
\* missing-field error, which processWebhook passes on to its caller, in the
\* step that accepts it: the request is over, and no agreement, charge,
\* subscription or notification has changed.  No other delivery fails so.
C13_MissingIdSurfaced ==
    [][\A r \in Serial :
        (req[r].pc = "idle" /\ req'[r].kind = "webhook") =>
            LET missing ==
                    \/ req'[r].ev \in ChargeEvents /\ req'[r].key = MissingChargeId
                    \/ req'[r].ev \in AgreementEvents /\ req'[r].id = MissingAgreementId
            IN  /\ missing =>
                    /\ req'[r].pc = "done" /\ req'[r].err = "missing"
                    /\ <<Tables, customers, notifications, queue>>'
                            = <<Tables, customers, notifications, queue>>
                /\ ~missing => req'[r].err # "missing"
       ]_vars

\* a charge-failed delivery without a chargeId has ended with the error;
\* every charge is pending as before and nothing was notified
C13_Witness ==
    \E r \in Slots :
        /\ req[r].pc = "done" /\ req[r].err = "missing"
        /\ req[r].ev = "recurring.charge-failed.v1" /\ req[r].key = MissingChargeId
        /\ \A c \in RowIds(charges) : charges[c].status = "pending"
        /\ notifications.failed = 0

\* C14: a delivery naming a provider charge id or agreement id that no local
\* row carries is a silent no-op: no step of its processing creates or
\* changes a row or notifies downstream, and it ends with no error of its own
\* (only a database failure can end it early).
C14_UnknownIdNoOp ==
    [][\A r \in Serial :
        LET rq == IF req[r].pc = "idle" THEN req'[r] ELSE req[r]
            unknown ==
                /\ rq.kind = "webhook"
                /\ \/ /\ rq.ev \in ChargeEvents
                      /\ rq.key # MissingChargeId
                      /\ rq.key \notin ChargeIdsOf(charges)
                   \/ /\ rq.ev \in AgreementEvents
                      /\ rq.id # MissingAgreementId
                      /\ rq.id \notin AgreementIdsOf(agreements)
        IN unknown =>
            /\ <<Tables, customers, notifications, queue>>'
                    = <<Tables, customers, notifications, queue>>
            /\ req'[r].err \in {"none", "db"}
       ]_vars

\* a charge-charged delivery for a charge id unknown locally was processed to
\* its end without an error; nothing was notified and every row is as it was
C14_Witness ==
    \E r \in Slots :
        /\ req[r].pc = "done" /\ req[r].err = "none"
        /\ req[r].ev = "recurring.charge-charged.v1" /\ req[r].key = UnknownChargeId
        /\ notifications.success = 0
        /\ \A c \in RowIds(charges) : charges[c].status = "pending"
        /\ \A a \in RowIds(agreements) : agreements[a].status = "active"

\* C15: the endpoint answers 200 for every delivery it accepts, without
\* waiting for the reconciliation: the answer is 200 while the reconciliation
\* is still under way, and stays 200 however the reconciliation ends.
C15_AnswersBeforeReconciliation ==
    \A r \in Slots : req[r].kind = "webhook" => req[r].res = 200

\* a charge-charged delivery was answered 200 and its reconciliation failed
\* at the status write: the charge is still pending
C15_Witness ==
    \E r \in Slots : \E c \in RowIds(charges) :
        /\ req[r].kind = "webhook" /\ req[r].pc = "done" /\ req[r].err = "db"
        /\ req[r].res = 200
        /\ req[r].ev = "recurring.charge-charged.v1"
        /\ charges[c].mobilepayChargeId = req[r].key /\ charges[c].status = "pending"

\* C16: eventual consistency through redelivery.  Whenever the reconciliation
\* of an accepted charge-charged delivery has failed, the charge it names is
\* eventually charged, under a provider that delivers again only what was
\* not answered with a success.
C16_FailedReconciliationReapplied ==
    \A c \in 1..MaxAgreements :
        (\E r \in Serial :
            /\ req[r].kind = "webhook" /\ req[r].pc = "done" /\ req[r].err = "db"
            /\ req[r].ev = "recurring.charge-charged.v1"
            /\ req[r].key = charges[c].mobilepayChargeId)
        ~> (charges[c].status = "charged")

(***************************************************************************)
(* Properties of the agreement status.                                     *)
(***************************************************************************)
\* C17: the stored status of an agreement moves only forward: a step leaves
\* it as it is, takes it from pending to active, or takes it to stopped or
\* expired; a stopped or expired agreement never returns to pending or active.
C17_StatusMonotonic ==
    [][\A a \in 1..MaxAgreements :
        \/ agreements'[a].status = agreements[a].status
        \/ agreements[a].status = "pending" /\ agreements'[a].status = "active"
        \/ agreements'[a].status \in {"stopped", "expired"}
       ]_vars

\* C18: the activation notification is sent once per agreement that went
\* from pending to active: no more notifications were initiated than there
\* are agreements that have left pending.
C18_ActivationNotifiedOnce ==
    notifications.activated
        <= Cardinality({a \in RowIds(agreements) : agreements[a].status # "pending"})

(***************************************************************************)
(* Properties of the downstream notification.                              *)
(***************************************************************************)
\* the attempts of a notification all failed
AllFailed(log) ==
    /\ log # <<>>
    /\ \A k \in 1..Len(log) : log[k].outcome = "fail"

\* C19: a notification failure is swallowed.  The step in which a webhook
\* handler or a status poll sends its notification ends the request with no
\* error and with its answer of 200, and changes no row, whatever the
\* delivery attempts came to: the same as when the first attempt succeeds.
C19_NotificationFailureSwallowed ==
    [][\A r \in Slots :
        (req[r].pc \in {"w_notify", "ws_notify", "p_notify"} /\ req'[r].sent # <<>>) =>
            /\ req'[r].pc = "done" /\ req'[r].err = "none" /\ req'[r].res = 200
            /\ <<Tables, customers, queue>>' = <<Tables, customers, queue>>
       ]_vars

\* a status poll and an agreement-stopped delivery have both ended without
\* an error after every delivery attempt of their notifications failed
C19_Witness ==
    \E p, w \in Slots :
        /\ req[p].kind = "poll" /\ req[p].pc = "done" /\ req[p].err = "none"
        /\ req[p].res = 200 /\ AllFailed(req[p].sent)
        /\ req[w].kind = "webhook" /\ req[w].pc = "done" /\ req[w].err = "none"
        /\ req[w].res = 200 /\ AllFailed(req[w].sent)
        /\ notifications.activated = 1 /\ notifications.cancelled = 1

\* C20: sendNotification makes at most 3 delivery attempts: none after a
\* successful one, and exactly 3 when every attempt fails.
C20_AtMostThreeAttempts ==
    \A r \in Slots :
        LET log == req[r].sent
        IN  /\ Len(log) <= 3
            /\ \A k \in 1..Len(log) : log[k].outcome = "ok" => k = Len(log)
            /\ AllFailed(log) => Len(log) = 3

\* a charge-failed delivery has ended after three failed attempts to notify
\* downstream
C20_Witness ==
    \E r \in Slots :
        /\ req[r].pc = "done" /\ req[r].ev = "recurring.charge-failed.v1"
        /\ Len(req[r].sent) = 3 /\ AllFailed(req[r].sent)
        /\ notifications.failed = 1

(***************************************************************************)
(* Properties of the admin retry.                                          *)
(***************************************************************************)
\* C21: a retry of a failed charge, when neither the provider nor the
\* database fails, adds one charge row with the failed row's agreement,
\* amount, due date, description and retry window and with a provider charge
\* id other than the failed row's, answers 200, and leaves the failed row
\* as it was.
C21_RetryCreatesNewCharge ==
    [][\A r \in Serial :
        (req[r].pc = "r_create" /\ req'[r].err \notin {"provider", "db"}) =>
            LET failed == charges[req[r].id]
                n == Len(charges) + 1
            IN  /\ req'[r].res = 200
                /\ Len(charges') = n
                /\ charges'[n].agreementId = failed.agreementId
                /\ charges'[n].amount = failed.amount
                /\ charges'[n].dueDate = failed.dueDate
                /\ charges'[n].description = failed.description
                /\ charges'[n].retryDays = failed.retryDays
                /\ charges'[n].mobilepayChargeId # failed.mobilepayChargeId
                /\ charges'[req[r].id] = failed
       ]_vars

\* C22: a retry of a charge that is not failed is answered 400 INVALID_STATUS
\* and a retry of an unknown charge id 404 NOT_FOUND, in the step that looks
\* the charge up: the request is over, the provider was not called and no
\* row has changed.  A retry of a failed charge is not rejected so.
C22_RetryRejected ==
    [][\A r \in Serial :
        (req[r].pc = "idle" /\ req'[r].kind = "retry") =>
            LET id == req'[r].id IN
            /\ id \notin RowIds(charges) =>
                    /\ req'[r].pc = "done" /\ req'[r].res = 404
                    /\ req'[r].err = "NOT_FOUND"
            /\ (id \in RowIds(charges) /\ charges[id].status # "failed") =>
                    /\ req'[r].pc = "done" /\ req'[r].res = 400
                    /\ req'[r].err = "INVALID_STATUS"
            /\ (id \in RowIds(charges) /\ charges[id].status = "failed") =>
                    req'[r].pc = "r_create"
            /\ <<Tables, customers, provider, notifications, queue>>'
                    = <<Tables, customers, provider, notifications, queue>>
       ]_vars

\* a retry of a charged charge was answered INVALID_STATUS; the provider
\* has the charge requests of the sweep only and there is no new row
C22_Witness ==
    \E r \in Slots :
        /\ req[r].kind = "retry" /\ req[r].pc = "done"
        /\ req[r].res = 400 /\ req[r].err = "INVALID_STATUS"
        /\ charges[req[r].id].status = "charged"
        /\ Len(charges) = MaxAgreements
        /\ Cardinality(provider.charges) = MaxAgreements

(***************************************************************************)
(* Properties of the create request.                                       *)
(***************************************************************************)
\* C23: a create request whose provider call failed has written no row:
\* when the only create request started so far has ended with the
\* provider's failure, the customer, agreement and subscription tables are
\* all empty.
C23_NoPartialState ==
    (/\ started.create = 1
     /\ \E r \in Slots : /\ req[r].kind = "create" /\ req[r].pc = "done"
                         /\ req[r].err = "provider")
        => /\ customers = <<>>
           /\ agreements = <<>>
           /\ subscriptions = <<>>

C24_CancelAfterProvider ==
    [][\A r \in Slots :
        /\ (req[r].pc = "x_provider" /\ req'[r].err = "provider") =>
                /\ req'[r].pc = "done" /\ req'[r].res = 500
                /\ Tables' = Tables
        /\ (req[r].kind = "cancel" /\ req'[r] # req[r]) =>
                /\ subscriptions' = subscriptions
                /\ agreements' # agreements =>
                    /\ req[r].pc = "x_update"
                    /\ provider.agreements[req[r].loc] = "STOPPED"
                    /\ agreements' = stopAgreements(agreements, req[r].loc)
       ]_vars

\* a cancel request has ended with the provider's failure while the
\* agreement it was for is active, with an active subscription
C24_Witness ==
    \E r \in Slots :
        /\ req[r].kind = "cancel" /\ req[r].pc = "done"
        /\ req[r].err = "provider" /\ req[r].res = 500
        /\ agreements[req[r].id].status = "active"
        /\ \E s \in RowIds(subscriptions) :
                /\ subscriptions[s].agreementId = req[r].id
                /\ subscriptions[s].status = "active"

(***************************************************************************)
(* Properties of the access token service.                                 *)
(***************************************************************************)
\* C25: a call returns the cached token, with no fetch sent, exactly when a
\* token is cached and its expiry is more than 300 seconds after the current
\* time, and such a token has more than 300 seconds of its lifetime left;
\* otherwise the call sends a fetch, and when the fetch is answered the new
\* token is cached with the expiry now + expires_in and is what the call
\* returns.
C25_CachedWhileFresh ==
    [][\A r \in Slots :
        /\ (req[r].pc = "idle" /\ req'[r].kind = "token") =>
            LET cached == /\ auth.accessToken # NoToken
                          /\ auth.tokenExpiry - auth.time > 300 * 1000
            IN  /\ cached =>
                    /\ req'[r].pc = "done" /\ req'[r].err = "none"
                    /\ req'[r].id = auth.accessToken
                    /\ auth'.fetches = auth.fetches
                    /\ auth'.issued = auth.issued
                    /\ auth'.accessToken = auth.accessToken
                    /\ auth'.tokenExpiry = auth.tokenExpiry
                    /\ auth.issued[auth.accessToken] - auth.time > 300 * 1000
                /\ ~cached =>
                    /\ req'[r].pc = "t_fetch"
                    /\ auth'.fetches = auth.fetches + 1
        /\ (req[r].pc = "t_fetch" /\ req'[r].pc = "done" /\ req'[r].err = "none") =>
            /\ req'[r].id = Len(auth.issued) + 1
            /\ auth'.accessToken = req'[r].id
            /\ \E expiresIn \in ExpiresIn :
                    auth'.tokenExpiry = auth.time + expiresIn * 1000
       ]_vars

\* a call was served from the cache one millisecond after a token of 301
\* seconds was fetched, and a call made a second after the fetch has sent a
\* fetch of its own, the token having exactly 300 seconds left
C25_Witness ==
    \E r, o \in Slots :
        /\ req[r].kind = "token" /\ req[r].pc = "done" /\ req[r].old = "cache"
        /\ req[r].id = 1 /\ auth.issued[1] = 301 * 1000
        /\ req[o].kind = "token" /\ req[o].pc = "t_fetch"
        /\ auth.accessToken = 1 /\ auth.tokenExpiry - auth.time = 300 * 1000

\* C26: a call whose fetch fails ends with an error and returns no token,
\* and the cache is empty after it, token and expiry; a call that returns a
\* token returns one that has not expired and that was issued after the
\* last failed fetch.
C26_FetchFailureClearsCache ==
    [][\A r \in Slots :
        /\ (req[r].pc = "t_fetch" /\ req'[r].err # "none") =>
            /\ req'[r].pc = "done" /\ req'[r].id = NoToken
            /\ auth'.accessToken = NoToken
            /\ auth'.tokenExpiry = NoToken
        /\ (/\ req[r].pc # "done" /\ req'[r].pc = "done"
            /\ req'[r].kind = "token" /\ req'[r].err = "none") =>
            /\ req'[r].id # NoToken
            /\ req'[r].id > auth'.stale
            /\ auth'.issued[req'[r].id] > auth'.time
       ]_vars

\* a fetch failed while the first token was cached and had not expired; a
\* later call has found the cache empty and returned a second token
C26_Witness ==
    \E r \in Slots :
        /\ auth.stale = 1 /\ auth.issued[1] > auth.time
        /\ req[r].kind = "token" /\ req[r].pc = "done" /\ req[r].err = "none"
        /\ req[r].old = "fetch" /\ req[r].id = 2

\* C27: the cached token and the cached expiry are always of one fetch;
\* when a call's fetch is answered while another call has sent a fetch too,
\* the call returns the token of its own answer, not expired and not the
\* token the other call returned, and the cache holds that token with its
\* expiry.
C27_OverlappingRefreshes ==
    [][/\ auth'.accessToken = NoToken => auth'.tokenExpiry = NoToken
       /\ auth'.accessToken # NoToken =>
                auth'.tokenExpiry = auth'.issued[auth'.accessToken]
       /\ \A r, o \in Slots :
            (/\ r # o /\ req[r].pc = "t_fetch"
             /\ req[o].kind = "token" /\ req[o].old = "fetch"
             /\ req'[r].pc = "done" /\ req'[r].err = "none") =>
                /\ req'[r].id = Len(auth'.issued)
                /\ auth'.issued[req'[r].id] > auth'.time
                /\ req[o].pc = "done" => req[o].id # req'[r].id
                /\ auth'.accessToken = req'[r].id
                /\ auth'.tokenExpiry = auth'.issued[req'[r].id]
      ]_vars

\* two calls found the cache expired and both sent a fetch before either
\* was answered; each has returned its own token, and the cache holds the
\* second token with the second expiry, which is not the first
C27_Witness ==
    /\ auth.fetches = 3 /\ Len(auth.issued) = 3
    /\ auth.issued[1] <= auth.time
    /\ req[1].kind = "token" /\ req[1].pc = "done" /\ req[1].old = "fetch"
    /\ req[2].kind = "token" /\ req[2].pc = "done" /\ req[2].old = "fetch"
    /\ req[1].id = 2 /\ req[2].id = 3
    /\ auth.issued[2] - auth.time > 300 * 1000
    /\ auth.accessToken = 3 /\ auth.tokenExpiry = auth.issued[3]
    /\ auth.issued[3] # auth.issued[2]

(***************************************************************************)
(* Properties of calculateNextBillingDate.                                 *)
(***************************************************************************)
\* C28: for a unit of DAY, WEEK, MONTH or YEAR and a positive count the
\* result is a date strictly later than the one given; for any other unit
\* the function throws the invalid-interval-unit error and returns no date.
C28_StrictlyLater ==
    \A r \in Serial :
        (req[r].kind = "next" /\ req[r].pc = "done") =>
            IF req[r].plan \in {"DAY", "WEEK", "MONTH", "YEAR"}
            THEN /\ req[r].err = "none"
                 /\ DateLess(req[r].snap[1], req[r].snap[2])
            ELSE /\ req[r].err = "Invalid interval unit"
                 /\ req[r].snap[2] = NoDate

\* a year was added to the 29th of February of a leap year
C28_Witness ==
    \E r \in Serial :
        /\ req[r].kind = "next" /\ req[r].pc = "done"
        /\ req[r].plan = "YEAR" /\ req[r].loc = 1
        /\ req[r].snap[1] = [y |-> 2024, m |-> 2, d |-> 29, t |-> 1]
        /\ DateLess([y |-> 2025, m |-> 2, d |-> 28, t |-> 1], req[r].snap[2])

\* C29: adding n months gives a date in the calendar month n months after
\* the month of the date given, and adding n years a date in the same month
\* n years later; one month added to 2026-01-31 is 2026-02-28 and one year
\* added to 2026-01-15 is 2027-01-15.
C29_StaysInTargetMonth ==
    \A r \in Serial :
        (req[r].kind = "next" /\ req[r].pc = "done") =>
            LET given == req[r].snap[1]
                result == req[r].snap[2]
                n == req[r].loc
            IN  /\ req[r].plan = "MONTH" =>
                    result.y * 12 + result.m = given.y * 12 + given.m + n
                /\ req[r].plan = "YEAR" =>
                    /\ result.y = given.y + n
                    /\ result.m = given.m
                /\ (/\ req[r].plan = "MONTH" /\ n = 1
                    /\ dueDateStr(given) = <<2026, 1, 31>>) =>
                        dueDateStr(result) = <<2026, 2, 28>>
                /\ (/\ req[r].plan = "YEAR" /\ n = 1
                    /\ dueDateStr(given) = <<2026, 1, 15>>) =>
                        dueDateStr(result) = <<2027, 1, 15>>

(***************************************************************************)
(* Properties of the signature check of the webhook endpoint.              *)
(***************************************************************************)
\* C31: a delivery whose signature header is present and invalid is
\* answered 401 and is never reconciled: while it is in a slot no row and no
\* notification count changes.
C31_InvalidSignatureRejected ==
    [][\A r \in Serial :
        (req'[r].kind = "webhook" /\ req'[r].signature = "invalid") =>
            /\ req'[r].res = 401
            /\ req'[r].pc = "done"
            /\ Tables' = Tables
            /\ notifications' = notifications
       ]_vars

(***************************************************************************)
(* Properties of the waits of sendNotification.                            *)
(***************************************************************************)
\* C32: the wait after failed attempt k, when another attempt follows, is
\* 2^k seconds; there is no wait after the last attempt; and a delivery
\* whose attempts all fail has waited 2, 4 and 8 seconds.
C32_BackoffWaits ==
    \A r \in Slots :
        LET log == req[r].sent
        IN  /\ \A k \in 1..Len(log) :
                    log[k].wait = IF k < Len(log) THEN 2 ^ k ELSE 0
            /\ (log # <<>> /\ AllFailed(log)) =>
                    \A s \in {2, 4, 8} : \E k \in 1..Len(log) : log[k].wait = s

(***************************************************************************)
(* Properties of the sweep's selection and of the order of its writes.     *)
(***************************************************************************)
\* C33: a sweep selects a subscription only when its nextBillingDate is the
\* sweep's target date exactly: a subscription whose nextBillingDate lies
\* before the target date of a starting sweep is not among its candidates,
\* and every charge row a sweep creates is for its own target date.
C33_MissedDayNeverSelected ==
    [][\A s \in Triggers :
        /\ \A k \in 1..Len(sweep'[s].subs) :
                sweep'[s].subs[k].nextBillingDate = sweep'[s].targetDate
        /\ (sweep[s].pc = "idle" /\ sweep'[s].pc # "idle") =>
                \A l \in RowIds(subscriptions) :
                    DateLess(subscriptions[l].nextBillingDate, sweep'[s].targetDate)
                        => \A k \in 1..Len(sweep'[s].subs) : sweep'[s].subs[k].id # l
        /\ (sweep[s].pc = "create" /\ Len(charges') > Len(charges)) =>
                charges'[Len(charges')].dueDate = sweep[s].targetDate
       ]_vars

\* the sweep of the due day asked the provider for the charge and failed
\* before the row was saved; the sweep of the day after has ended with no
\* candidate, and the subscription still waits with its date in the past
C33_Witness ==
    /\ started.sweep = 2
    /\ sweep["cron"].pc = "done" /\ sweep["cron"].subs = <<>>
    /\ sweep["cron"].logged = "completed"
    /\ provider.charges # {}
    /\ charges = <<>>
    /\ \A l \in RowIds(subscriptions) :
            DateLess(subscriptions[l].nextBillingDate, sweep["cron"].targetDate)

\* C34: the charge row is saved before nextBillingDate is advanced: every
\* due date a subscription has been advanced past has a charge row for the
\* subscription's agreement and that date, and the step that advances a
\* subscription finds that row in the table.
C34_ChargeBeforeAdvance ==
    [][/\ \A l \in RowIds(subscriptions') : \A D \in AdvancedPast(l)' :
            \E c \in RowIds(charges') :
                /\ charges'[c].agreementId = subscriptions'[l].agreementId
                /\ charges'[c].dueDate = D
       /\ \A l \in RowIds(subscriptions) :
            subscriptions'[l].nextBillingDate # subscriptions[l].nextBillingDate =>
                \E c \in RowIds(charges) :
                    /\ charges[c].agreementId = subscriptions[l].agreementId
                    /\ charges[c].dueDate = subscriptions[l].nextBillingDate
      ]_vars

\* the monthly subscription has been advanced twice, past the first of
\* February and past the first of March, and has a charge row for each
C34_Witness ==
    \E l \in RowIds(subscriptions) :
        /\ Cardinality(AdvancedPast(l)) = 2
        /\ Cardinality({c \in RowIds(charges) :
                charges[c].agreementId = subscriptions[l].agreementId}) = 2

C36_LastWriterWins ==
    [][\A r \in Serial :
        (req[r].pc = "w_update" /\ req'[r].pc # "w_update" /\ req'[r].err # "db") =>
            \A c \in RowIds(charges) :
                charges'[c] =
                    IF charges[c].mobilepayChargeId = req[r].key
                    THEN [charges[c] EXCEPT !.status = ChargeEventStatus(req[r].ev)]
                    ELSE charges[c]
       ]_vars

\* charge-charged was processed and downstream was told of the success;
\* then charge-due for the same charge was processed, and the charge is due
C36_Witness ==
    \E r \in Serial, c \in RowIds(charges) :
        /\ notifications.success = 1
        /\ \A d \in RowIds(charges) : charges[d].status # "charged"
        /\ \A d \in RowIds(charges) : d # c => charges[d].status = "pending"
        /\ req[r].pc = "done" /\ req[r].ev = "recurring.charge-due.v1"
        /\ req[r].err = "none" /\ req[r].key = charges[c].mobilepayChargeId
        /\ charges[c].status = "due"

(***************************************************************************)
(* Properties of stopped agreements and of overlapping reconciliations.    *)
(***************************************************************************)
\* C37: once an agreement-stopped delivery has been processed to its end,
\* or a cancel request has been answered with a success, the agreement it
\* was for, if its status is stopped, has no active subscription.
C37_StoppedHasNoActiveLink ==
    \A r \in Slots : \A a \in RowIds(agreements) :
        (/\ req[r].pc = "done" /\ req[r].err = "none"
         /\ \/ /\ req[r].kind = "cancel" /\ req[r].res = 200
               /\ req[r].id = a
            \/ /\ req[r].ev = "recurring.agreement-stopped.v1"
               /\ req[r].id = agreements[a].mobilepayAgreementId
         /\ agreements[a].status = "stopped")
        => \A k \in RowIds(subscriptions) :
                subscriptions[k].agreementId = a => subscriptions[k].status # "active"

\* C38: when a charge-charged and a charge-failed reconciliation for one
\* charge have both ended, the notification of the one that notified last
\* is the one of the status the charge has.
C38_LastNotificationAgrees ==
    \A r, o \in Slots : \A c \in RowIds(charges) :
        (/\ req[r].pc = "done" /\ req[r].err = "none"
         /\ req[o].pc = "done" /\ req[o].err = "none"
         /\ req[r].ev = "recurring.charge-charged.v1"
         /\ req[o].ev = "recurring.charge-failed.v1"
         /\ req[r].key = charges[c].mobilepayChargeId
         /\ req[o].key = charges[c].mobilepayChargeId)
        => charges[c].status = IF req[r].seq > req[o].seq THEN "charged" ELSE "failed"

\* C39: in polls that do not overlap, the step that initiates the
\* activation notification of an agreement finds the status active already
\* stored, and it is the first and only one for that agreement: the count
\* of activation notifications of the agreement goes from 0 to 1, also when
\* an earlier delivery exhausted its attempts.
C39_ActivationOnceInSequence ==
    [][\A r \in Slots :
        (req[r].pc = "p_notify" /\ req'[r].pc = "done") =>
            /\ agreements[req[r].id].status = "active"
            /\ notifications.activatedFor[req[r].id] = 0
            /\ notifications'.activatedFor[req[r].id] = 1
       ]_vars

\* the poll that sent the activation notification of an agreement ended
\* after every delivery attempt failed, and a later poll of the agreement
\* has ended without sending anything: one notification was initiated
C39_Witness ==
    \E p, q \in Slots : \E a \in RowIds(agreements) :
        /\ req[p].kind = "poll" /\ req[p].pc = "done" /\ req[p].id = a
        /\ AllFailed(req[p].sent)
        /\ req[q].kind = "poll" /\ req[q].pc = "done" /\ req[q].id = a
        /\ req[q].err = "none" /\ req[q].sent = <<>>
        /\ agreements[a].status = "active"
        /\ notifications.activatedFor[a] = 1

====
